---- MODULE Spec2Model ----
(***************************************************************************)
(* Event canonicalization and cross-tool reconciliation of alternative     *)
(* splicing calls (rMATS, MAJIQ, PSI-Sigma, SUPPA2).                       *)
(*                                                                         *)
(* Text values (gene ids, chromosome names, coordinate fields, uniform     *)
(* IDs) are sequences of one-character strings, so that prefix tests,      *)
(* splitting, regular-expression matches and integer formatting are        *)
(* computed character by character as the Python code computes them.       *)
(* Floating-point statistics are fixed-point integers in thousandths       *)
(* (0.05 is 50), percent-scale values are in hundredths of a percent.      *)
(***************************************************************************)
EXTENDS Integers, Sequences, FiniteSets, TLC

VARIABLES
    event,          \* SE unit: the biological event handed to the three tools
    uniform_ID,     \* SE unit: tool -> identifier emitted (or Unset)
    software_list,  \* integration: the requested tools, in order
    dfs,            \* integration: classification tables loaded so far
    dse_df,         \* integration: the table load_files returned last
    df_combined,    \* integration: the consensus table (or Unset)
    n,              \* integration: loop counter of the threshold loop
    files,          \* integration: output files written, name -> table
    pc,             \* integration: position in integration_analysis
    cls_in,         \* classifier unit: [software, event_type, df]
    cls_out,        \* classifier unit: implementation -> returned table
    psivec,         \* ASE unit: [software, df]
    ase_ids,        \* ASE unit: (test set, control set) or Unset
    majiq_in,       \* MAJIQ canonicalizer: [event_type, groups]
    majiq_loop,     \* MAJIQ canonicalizer: loop state of the groupby loop
    load_in,        \* integration run: [software_list, event_list, present]
    load_st,        \* integration run: progress of integration_analysis
    unify_in,       \* benchmarking run: [software_list, event_list, present]
    unify_st,       \* benchmarking run: progress of unify_results
    novel_in,       \* novelty filter: [df, event_type, novel files]
    novel_out,      \* novelty filter: the returned table (or Unset)
    psisigma_in,    \* PSI-Sigma canonicalizer: [df, gtf_df] or [df]
    psisigma_out    \* PSI-Sigma canonicalizer: the returned table (or not run)

vars == <<event, uniform_ID, software_list, dfs, dse_df, df_combined, n, files, pc,
          cls_in, cls_out, psivec, ase_ids, majiq_in, majiq_loop,
          load_in, load_st, unify_in, unify_st, novel_in, novel_out,
          psisigma_in, psisigma_out>>

seVars == <<event, uniform_ID>>
intVars == <<software_list, dfs, dse_df, df_combined, n, files, pc>>
clsVars == <<cls_in, cls_out>>
aseVars == <<psivec, ase_ids>>
majVars == <<majiq_in, majiq_loop>>
ldVars == <<load_in, load_st>>
uniVars == <<unify_in, unify_st>>
novVars == <<novel_in, novel_out>>
psVars == <<psisigma_in, psisigma_out>>

\* Sentinels are one-element sequences holding a token that is no character,
\* so that they compare with text values and never equal one.
Unset == <<"<unset>">>
\* Python None / pandas NA
NA == <<"<NA>">>
\* Outcomes of a call that raises
ValueError == <<"<ValueError>">>
AttributeError == <<"<AttributeError>">>
UnboundLocalError == <<"<UnboundLocalError>">>
TypeError == <<"<TypeError>">>

(***************************************************************************)
(* Text helpers                                                            *)
(***************************************************************************)
Digits == <<"0","1","2","3","4","5","6","7","8","9">>

DigitSet == {Digits[i] : i \in 1..10}

DigitVal(c) == (CHOOSE i \in 1..10 : Digits[i] = c) - 1

\* str.lower() on the letters that occur in chromosome names and in the
\* missing-value marks of replicate lists
UPPER == <<"A","B","C","D","E","F","G","H","I","J","K","L","M",
           "N","O","P","Q","R","S","T","U","V","W","X","Y","Z">>

LOWER == <<"a","b","c","d","e","f","g","h","i","j","k","l","m",
           "n","o","p","q","r","s","t","u","v","w","x","y","z">>

\* str.lower() on one character, as a table over the capital letters
LowerTable == [c \in {UPPER[i] : i \in 1..26} |-> LOWER[CHOOSE i \in 1..26 : UPPER[i] = c]]

Lower(c) == IF c \in DOMAIN LowerTable THEN LowerTable[c] ELSE c

LowerStr(s) == [i \in 1..Len(s) |-> Lower(s[i])]

StartsWith(s, p) == Len(s) >= Len(p) /\ SubSeq(s, 1, Len(p)) = p

Drop(s, k) == SubSeq(s, k + 1, Len(s))

RECURSIVE NatToStr(_)
NatToStr(k) ==
    IF k < 10 THEN <<Digits[k + 1]>>
    ELSE NatToStr(k \div 10) \o <<Digits[(k % 10) + 1]>>

\* f"{k}" for an int
IntToStr(k) == IF k < 0 THEN <<"-">> \o NatToStr(0 - k) ELSE NatToStr(k)

\* str.isdigit()
IsDigitStr(s) == Len(s) > 0 /\ \A i \in 1..Len(s) : s[i] \in DigitSet

RECURSIVE DigitsToNat(_)
DigitsToNat(s) ==
    IF Len(s) = 0 THEN 0
    ELSE 10 * DigitsToNat(SubSeq(s, 1, Len(s) - 1)) + DigitVal(s[Len(s)])

\* int(v) of a cell's text: an optionally signed run of digits parses,
\* anything else raises ValueError
IsPyInt(v) ==
    \/ IsDigitStr(v)
    \/ (Len(v) > 1 /\ v[1] = "-" /\ IsDigitStr(Drop(v, 1)))

PyInt(v) ==
    IF v[1] = "-" THEN 0 - DigitsToNat(Drop(v, 1)) ELSE DigitsToNat(v)

\* str.split(sep) for a one-character separator
RECURSIVE Split(_, _)
Split(s, sep) ==
    IF \A i \in 1..Len(s) : s[i] # sep THEN <<s>>
    ELSE LET k == CHOOSE i \in 1..Len(s) :
                      s[i] = sep /\ \A j \in 1..(i - 1) : s[j] # sep
         IN <<SubSeq(s, 1, k - 1)>> \o Split(Drop(s, k), sep)

\* str.strip(ch)
RECURSIVE StripChar(_, _)
StripChar(s, ch) ==
    IF Len(s) > 0 /\ s[1] = ch THEN StripChar(Drop(s, 1), ch)
    ELSE IF Len(s) > 0 /\ s[Len(s)] = ch
         THEN StripChar(SubSeq(s, 1, Len(s) - 1), ch)
    ELSE s

\* str.replace(pat, ""): every non-overlapping occurrence, left to right
RECURSIVE RemoveAll(_, _)
RemoveAll(s, pat) ==
    IF Len(s) < Len(pat) THEN s
    ELSE IF StartsWith(s, pat) THEN RemoveAll(Drop(s, Len(pat)), pat)
    ELSE <<s[1]>> \o RemoveAll(Drop(s, 1), pat)

RECURSIVE Concat(_)
Concat(parts) ==
    IF Len(parts) = 0 THEN <<>> ELSE Head(parts) \o Concat(Tail(parts))

QUOTE == "\""
ENSG == <<"E","N","S","G">>

\* re.match(r'^"(ENSG[^"]+)"$', s): group 1, or NA when there is no match
MatchQuotedENSG(s) ==
    IF /\ Len(s) >= 7
       /\ s[1] = QUOTE /\ s[Len(s)] = QUOTE
       /\ SubSeq(s, 2, 5) = ENSG
       /\ \A i \in 6..(Len(s) - 1) : s[i] # QUOTE
    THEN SubSeq(s, 2, Len(s) - 1)
    ELSE NA

\* re.search(r'ENSG\d+', s): group 0 of the leftmost match (greedy), or NA
SearchENSGDigits(s) ==
    LET starts == {i \in 1..Len(s) :
                      /\ i + 4 <= Len(s)
                      /\ SubSeq(s, i, i + 3) = ENSG
                      /\ s[i + 4] \in DigitSet}
    IN IF starts = {} THEN NA
       ELSE LET i == CHOOSE x \in starts : \A y \in starts : x <= y
                j == CHOOSE x \in (i + 4)..Len(s) :
                        /\ \A k \in (i + 4)..x : s[k] \in DigitSet
                        /\ (x = Len(s) \/ s[x + 1] \notin DigitSet)
            IN SubSeq(s, i, j)

\* re.match(r'^([^:]+):(\d+)-(\d+)$', s): whether it matches, and its groups
RegionMatches(s) ==
    LET p == Split(s, ":")
    IN /\ Len(p) = 2 /\ Len(p[1]) > 0
       /\ LET c == Split(p[2], "-")
          IN Len(c) = 2 /\ IsDigitStr(c[1]) /\ IsDigitStr(c[2])

RegionGroups(s) ==
    LET p == Split(s, ":")
        c == Split(p[2], "-")
    IN <<p[1], c[1], c[2]>>

\* Chr.lower().startswith("chr") -> Chr[3:]
StripChrPrefix(Chr) ==
    IF StartsWith(LowerStr(Chr), <<"c","h","r">>) THEN Drop(Chr, 3) ELSE Chr

(***************************************************************************)
(* Canonicalizers for skipped-exon (SE) events                             *)
(***************************************************************************)
\* Normalisation of the gene field in the rMATS and PSI-Sigma parsers
NormGeneQuoted(raw) ==
    IF MatchQuotedENSG(raw) # NA THEN MatchQuotedENSG(raw)
    ELSE StripChar(raw, QUOTE)

\* Normalisation of the gene field in the MAJIQ parsers
NormGeneSearch(raw) ==
    IF SearchENSGDigits(raw) # NA THEN SearchENSGDigits(raw) ELSE raw

\* seqid.replace('seqid', '')
MajiqChrom(seqid) == RemoveAll(seqid, <<"s","e","q","i","d">>)

\* f"{gene_id};{code}:{Chr}:{a}-{b}:{c}-{d}:{strand}"
FormatTwoBlocks(gene_id, code, Chr, a, b, c, d, strand) ==
    Concat(<<gene_id, <<";">>, code, <<":">>, Chr, <<":">>,
             IntToStr(a), <<"-">>, IntToStr(b), <<":">>,
             IntToStr(c), <<"-">>, IntToStr(d), <<":">>, strand>>)

parse_rMATS_SE_plus1(row, event_type) ==
    IF ~(/\ IsPyInt(row.upstreamEE) /\ IsPyInt(row.exonStart_0base)
         /\ IsPyInt(row.exonEnd) /\ IsPyInt(row.downstreamES))
    THEN NA
    ELSE FormatTwoBlocks(NormGeneQuoted(row.GeneID), event_type,
                         StripChrPrefix(row.chr),
                         PyInt(row.upstreamEE), PyInt(row.exonStart_0base),
                         PyInt(row.exonEnd), PyInt(row.downstreamES) + 1,
                         row.strand)

parse_rMATS_SE(row, event_type) ==
    IF ~(/\ IsPyInt(row.upstreamEE) /\ IsPyInt(row.exonStart_0base)
         /\ IsPyInt(row.exonEnd) /\ IsPyInt(row.downstreamES))
    THEN NA
    ELSE FormatTwoBlocks(NormGeneQuoted(row.GeneID), event_type,
                         StripChrPrefix(row.chr),
                         PyInt(row.upstreamEE), PyInt(row.exonStart_0base) + 1,
                         PyInt(row.exonEnd), PyInt(row.downstreamES) + 1,
                         row.strand)

\* group[group[col] == value]: the rows of the group that carry the label
RowsWhere(group, col, value) ==
    SelectSeq(group, LAMBDA r : r[col] = value)

\* map(int, text.split('-')) unpacked into two names: both parts are integers
TwoInts(text) ==
    LET p == Split(text, "-")
    IN Len(p) = 2 /\ IsPyInt(p[1]) /\ IsPyInt(p[2])

IntPart(text, i) == PyInt(Split(text, "-")[i])

\* The uniform_ID parse_MAJIQ_SE gives one event_id group
MAJIQ_SE_ID(group) ==
    LET gene_id == NormGeneSearch(group[1].gene_id)
        strand == group[1].strand
        chrom == MajiqChrom(group[1].seqid)
        c1c2 == RowsWhere(group, "junction_name", <<"C1_C2">>)
        c1a == RowsWhere(group, "junction_name", <<"C1_A">>)
    IN IF Len(c1c2) = 0 THEN NA                                \* IndexError
       ELSE IF ~TwoInts(c1c2[1].junction_coord) THEN NA        \* ValueError
       ELSE IF Len(c1a) = 0 THEN NA                            \* IndexError
       ELSE IF ~TwoInts(c1a[1].spliced_with_coord) THEN NA     \* ValueError
       ELSE FormatTwoBlocks(gene_id, <<"S","E">>, chrom,
                IntPart(c1c2[1].junction_coord, 1),
                IntPart(c1a[1].spliced_with_coord, 1),
                IntPart(c1a[1].spliced_with_coord, 2),
                IntPart(c1c2[1].junction_coord, 2),
                strand)

\* generate_ID of parse_psisigma_SE_A3SS_A5SS for an 'SES' row; a field the
\* pattern does not match raises AttributeError (only ValueError is caught)
psisigma_generate_ID_SES(row) ==
    IF ~RegionMatches(row.Target_Exon) \/ ~RegionMatches(row.Event_Region)
    THEN AttributeError
    ELSE LET te == RegionGroups(row.Target_Exon)
             er == RegionGroups(row.Event_Region)
         IN FormatTwoBlocks(NormGeneQuoted(row.gene_id), <<"S","E">>,
                            StripChrPrefix(te[1]),
                            PyInt(er[2]) - 1, PyInt(te[2]),
                            PyInt(te[3]), PyInt(er[3]) + 1,
                            row.strand)

(***************************************************************************)
(* SE unit: one biological event, reported by the three tools              *)
(***************************************************************************)
Tools3 == {"rMATS", "MAJIQ", "PSI-Sigma"}

\* Bound on the small coordinates tried besides the fixed examples
MaxCoord == 2

\* Gene fields and chromosome names as the tools' files spell them
GENE_Q == <<"\"","E","N","S","G","0","0","0","0","0","0","0","1","\"">>
GENE_PLAIN == <<"E","N","S","G","0","0","0","0","0","0","0","1">>
GENE_VER == <<"E","N","S","G","0","0","0","0","0","0","0","1",".","5">>
GENE_OTHER == <<"\"","L","O","C","1","\"">>
CHR1 == <<"c","h","r","1">>
ONE == <<"1">>
CHRX_UP == <<"C","H","R","X">>

Genes == {GENE_Q, GENE_PLAIN, GENE_VER, GENE_OTHER}

Chroms == {CHR1, ONE, CHRX_UP}

\* <<upstream exon end, exon start (1-based), exon end, downstream exon start>>
SECoords ==
    {<<100, 150, 200, 250>>, <<9, 10, 99, 100>>}
        \cup {<<u, u + 3, u + 8, u + 11>> : u \in 1..MaxCoord}

SEEvents ==
    [gene : Genes, chrom : Chroms, coords : SECoords, strand : {<<"+">>, <<"-">>}]

\* The rMATS SE row of the event: exonStart_0base and downstreamES are 0-based
rMATS_row(e) ==
    [GeneID |-> e.gene, chr |-> e.chrom, strand |-> e.strand,
     upstreamEE |-> IntToStr(e.coords[1]),
     exonStart_0base |-> IntToStr(e.coords[2] - 1),
     exonEnd |-> IntToStr(e.coords[3]),
     downstreamES |-> IntToStr(e.coords[4] - 1)]

MajiqRow(e, junction_name, junction_coord, spliced_with, spliced_with_coord) ==
    [gene_id |-> e.gene, seqid |-> e.chrom, strand |-> e.strand,
     junction_name |-> junction_name, junction_coord |-> junction_coord,
     spliced_with |-> spliced_with, spliced_with_coord |-> spliced_with_coord]

Range(a, b) == IntToStr(a) \o <<"-">> \o IntToStr(b)

\* The MAJIQ cassette rows of the event (one event_id group)
MAJIQ_group(e) ==
    LET U == e.coords[1]
        S == e.coords[2]
        E == e.coords[3]
        D == e.coords[4]
    IN <<MajiqRow(e, <<"C1_A">>, Range(U, S), <<"A">>, Range(S, E)),
         MajiqRow(e, <<"C1_C2">>, Range(U, D), <<"C2">>, Range(D, D + 50)),
         MajiqRow(e, <<"C2_A">>, Range(E, D), <<"A">>, Range(S, E)),
         MajiqRow(e, <<"C2_C1">>, Range(U, D), <<"C1">>, Range(U - 50, U))>>

\* The PSI-Sigma row of the event
psisigma_row(e) ==
    [gene_id |-> e.gene, strand |-> e.strand, Event_Type |-> <<"SES">>,
     Event_Region |-> e.chrom \o <<":">> \o Range(e.coords[1] + 1, e.coords[4] - 1),
     Target_Exon |-> e.chrom \o <<":">> \o Range(e.coords[2], e.coords[3])]

SE_Idle ==
    /\ event = Unset
    /\ uniform_ID = Unset

SE_Init ==
    /\ event \in SEEvents
    /\ uniform_ID = [t \in Tools3 |-> Unset]

Run_parse_rMATS_SE ==
    /\ uniform_ID["rMATS"] = Unset
    /\ uniform_ID' = [uniform_ID EXCEPT
                        !["rMATS"] = parse_rMATS_SE(rMATS_row(event), <<"S","E">>)]
    /\ UNCHANGED event

Run_parse_MAJIQ_SE ==
    /\ uniform_ID["MAJIQ"] = Unset
    /\ uniform_ID' = [uniform_ID EXCEPT !["MAJIQ"] = MAJIQ_SE_ID(MAJIQ_group(event))]
    /\ UNCHANGED event

Run_parse_psisigma_SE ==
    /\ uniform_ID["PSI-Sigma"] = Unset
    /\ uniform_ID' = [uniform_ID EXCEPT
                        !["PSI-Sigma"] = psisigma_generate_ID_SES(psisigma_row(event))]
    /\ UNCHANGED event

(***************************************************************************)
(* Integrator: integration_analysis and load_files                         *)
(*                                                                         *)
(* Here a uniform_ID is an opaque key and a table is a sequence of rows.   *)
(* pd.merge(how='outer') orders its result by key, so the row order of a   *)
(* classification table does not enter the result; tables are taken with   *)
(* their rows in (key, class) order.                                       *)
(***************************************************************************)
\* A missing cell of the consensus table
NaN == "NaN"

Classes == {"up-regulate", "down-regulate", "non-DSE"}

\* Bound on the number of rows of one tool's classification table
MaxRows == 2

\* The uniform_IDs that occur in the classification tables, in key order
UIDSeq == <<"e1", "e2">>

UIDs == {UIDSeq[i] : i \in 1..Len(UIDSeq)}

KeyRank(u) == CHOOSE i \in 1..Len(UIDSeq) : UIDSeq[i] = u

ClassSeq == <<"up-regulate", "down-regulate", "non-DSE">>

\* Position of a row in (key, class) order
RowRank(r) ==
    3 * KeyRank(r.uniform_ID) + (CHOOSE i \in 1..3 : ClassSeq[i] = r.class)

\* The tables annotate_dse can return: columns uniform_ID and class
ClassRows == [uniform_ID : UIDs, class : Classes]

ClassTables ==
    {t \in UNION {[1..m -> ClassRows] : m \in 0..MaxRows} :
        \A i \in 1..(Len(t) - 1) :
            RowRank(t[i]) <= RowRank(t[i + 1])}

\* The software lists requested
SoftwareLists ==
    {<<"rMATS">>, <<"MAJIQ", "rMATS">>, <<"SUPPA2", "rmats", "PSI-Sigma">>}

\* dse_df['class'].replace(['up-regulate', 'down-regulate'], 'DSE')
ReplaceClassOnlyUp(c) == IF c = "up-regulate" THEN "DSE" ELSE c

ReplaceClass(c) == IF c \in {"up-regulate", "down-regulate"} THEN "DSE" ELSE c

\* Lines 43-44: the table appended to dfs, its class column collapsed and
\* renamed to the tool
CollapsedTable(dse) ==
    [i \in 1..Len(dse) |->
        [uniform_ID |-> dse[i].uniform_ID, class |-> ReplaceClass(dse[i].class)]]

RowsOfKey(tbl, u) == SelectSeq(tbl, LAMBDA r : r.uniform_ID = u)

NaNs(k) == [i \in 1..k |-> NaN]

\* A merge that fills the cells of an absent side with non-DSE
MergeBlock_filled(left, right, width, u) ==
    LET L == RowsOfKey(left, u)
        R == RowsOfKey(right, u)
    IN IF Len(R) = 0
       THEN [i \in 1..Len(L) |->
                [uniform_ID |-> u, cols |-> L[i].cols \o <<"non-DSE">>]]
       ELSE IF Len(L) = 0
       THEN [i \in 1..Len(R) |->
                [uniform_ID |-> u,
                 cols |-> [j \in 1..width |-> "non-DSE"] \o <<R[i].class>>]]
       ELSE [i \in 1..(Len(L) * Len(R)) |->
                [uniform_ID |-> u,
                 cols |-> L[((i - 1) \div Len(R)) + 1].cols
                            \o <<R[((i - 1) % Len(R)) + 1].class>>]]

\* The rows pd.merge(left, right, on='uniform_ID', how='outer') has for key u:
\* every pairing of a left and a right row, or the rows of the one side
\* padded with missing values
MergeBlock(left, right, width, u) ==
    LET L == RowsOfKey(left, u)
        R == RowsOfKey(right, u)
    IN IF Len(R) = 0
       THEN [i \in 1..Len(L) |->
                [uniform_ID |-> u, cols |-> L[i].cols \o <<NaN>>]]
       ELSE IF Len(L) = 0
       THEN [i \in 1..Len(R) |->
                [uniform_ID |-> u, cols |-> NaNs(width) \o <<R[i].class>>]]
       ELSE [i \in 1..(Len(L) * Len(R)) |->
                [uniform_ID |-> u,
                 cols |-> L[((i - 1) \div Len(R)) + 1].cols
                            \o <<R[((i - 1) % Len(R)) + 1].class>>]]

OuterMerge(left, right, width) ==
    Concat([k \in 1..Len(UIDSeq) |-> MergeBlock(left, right, width, UIDSeq[k])])

\* reduce(lambda left, right: pd.merge(...), dfs)
RECURSIVE ReduceMerge(_, _)
ReduceMerge(tables, k) ==
    IF k = 1
    THEN [i \in 1..Len(tables[1]) |->
            [uniform_ID |-> tables[1][i].uniform_ID,
             cols |-> <<tables[1][i].class>>]]
    ELSE CHOOSE merged \in
            {OuterMerge(left, tables[k], k - 1) :
                left \in {ReduceMerge(tables, k - 1)}} : TRUE

\* df_combined[dse_cols].isin(["DSE"]).sum(axis=1)
RECURSIVE CountDSE(_)
CountDSE(cols) ==
    IF Len(cols) = 0 THEN 0
    ELSE (IF Head(cols) = "DSE" THEN 1 ELSE 0) + CountDSE(Tail(cols))

\* 'DSE' if x > n else 'non-DSE'
ConsensusClassExactly(x, k) == IF x = k + 1 THEN "DSE" ELSE "non-DSE"

ConsensusClassAtLeast(x, k) == IF x >= k THEN "DSE" ELSE "non-DSE"

ConsensusClass(x, k) == IF x > k THEN "DSE" ELSE "non-DSE"

\* f"integration_{support_software}of{n}.txt"
OutputName(k) == <<k + 1, k>>

Int_Init ==
    /\ software_list \in SoftwareLists
    /\ dfs = <<>>
    /\ dse_df = <<>>
    /\ df_combined = <<>>
    /\ n = 0
    /\ files = <<>>
    /\ pc = "load"

\* One iteration of the loop over software_list (lines 41-45): load_files
\* returns the tool's classification table, which is collapsed and appended
LoadSoftware ==
    /\ pc = "load"
    /\ Len(dfs) < Len(software_list)
    /\ \E dse \in ClassTables :
          /\ dse_df' = dse
          /\ dfs' = Append(dfs, CollapsedTable(dse))
    /\ UNCHANGED <<software_list, df_combined, n, files, pc>>

\* The join taken as soon as one table is loaded
MergeAll_partial ==
    /\ pc = "load"
    /\ Len(dfs) >= 1
    /\ \E merged \in {ReduceMerge(dfs, Len(dfs))} :
          df_combined' =
            [i \in 1..Len(merged) |->
                [uniform_ID |-> merged[i].uniform_ID,
                 cols |-> merged[i].cols,
                 sum |-> CountDSE(merged[i].cols),
                 class |-> NaN]]
    /\ dse_df' = <<>>
    /\ n' = 0
    /\ pc' = "write"
    /\ UNCHANGED <<software_list, dfs, files>>

\* Lines 47-51: the outer joins and the support count
MergeAll ==
    /\ pc = "load"
    /\ Len(dfs) = Len(software_list)
    /\ \E merged \in {ReduceMerge(dfs, Len(dfs))} :
          df_combined' =
            [i \in 1..Len(merged) |->
                [uniform_ID |-> merged[i].uniform_ID,
                 cols |-> merged[i].cols,
                 sum |-> CountDSE(merged[i].cols),
                 class |-> NaN]]
    /\ dse_df' = <<>>
    /\ n' = 0
    /\ pc' = "write"
    /\ UNCHANGED <<software_list, dfs, files>>

\* One iteration of the threshold loop (lines 52-58)
WriteThreshold ==
    /\ pc = "write"
    /\ n < Len(software_list)
    /\ LET out == [i \in 1..Len(df_combined) |->
                     [df_combined[i] EXCEPT
                        !.class = ConsensusClass(df_combined[i].sum, n)]]
       IN /\ df_combined' = out
          /\ files' = [x \in DOMAIN files \cup {OutputName(n)} |->
                          IF x = OutputName(n) THEN out ELSE files[x]]
    /\ n' = n + 1
    /\ pc' = IF n + 1 = Len(software_list) THEN "done" ELSE "write"
    /\ UNCHANGED <<software_list, dfs, dse_df>>

(***************************************************************************)
(* Classifier: annotate_dse_class (benchmarking pipeline) and annotate_dse *)
(* (integration pipeline)                                                  *)
(*                                                                         *)
(* A numeric cell is <<v>>, or <<>> when it is NaN (missing, or text that  *)
(* pd.to_numeric(errors='coerce') could not parse); every comparison with  *)
(* NaN is false.  Probabilities, dPSI, FDR and p-values are in thousandths,*)
(* PSI-Sigma's percent dPSI in hundredths of a percent.  A returned row    *)
(* keeps the position (src) of the input row it comes from.                *)
(***************************************************************************)
\* FDR <= 0.01 (rMATS), in thousandths
RMATS_FDR_MAX == 10
\* |IncLevelDifference| >= 0.05 (rMATS), |dPSI| >= 0.05 (SUPPA2), in thousandths
DELTA_MIN == 50
\* p-value < 0.05 (SUPPA2), FDR (BH) < 0.05 (PSI-Sigma), in thousandths
PVAL_MAX == 50
\* |dPSI (%)| >= 5 (PSI-Sigma), in hundredths of a percent
PSISIGMA_DPSI_MIN == 500
\* probability_changing > 0.95 (MAJIQ), in thousandths
MAJIQ_PROB_MIN == 950

IsNaN(c) == c = <<>>

GE(c, t) == c # <<>> /\ c[1] >= t
LE(c, t) == c # <<>> /\ c[1] <= t
GT(c, t) == c # <<>> /\ c[1] > t
LT(c, t) == c # <<>> /\ c[1] < t

\* The positions 1..k that satisfy Keep, in order
Positions(k, Keep(_)) == SelectSeq([i \in 1..k |-> i], Keep)

OutRow(df, i, class) == [uniform_ID |-> df[i].uniform_ID, class |-> class, src |-> i]

Ok(table) == [status |-> "ok", table |-> table]

NotRun == [status |-> "unset", table |-> <<>>]

\* np.select(conditions, ['up-regulate', 'down-regulate'], default='non-DSE')
Select3(up, down) ==
    IF up THEN "up-regulate" ELSE IF down THEN "down-regulate" ELSE "non-DSE"

\* rMATS: dse_parser.py lines 16-21, dse_annotation.py lines 22-27
rMATS_class_strict(r) ==
    Select3(LT(r.FDR, RMATS_FDR_MAX) /\ GT(r.IncLevelDifference, DELTA_MIN),
            LT(r.FDR, RMATS_FDR_MAX) /\ LT(r.IncLevelDifference, 0 - DELTA_MIN))

rMATS_class(r) ==
    Select3(LE(r.FDR, RMATS_FDR_MAX) /\ GE(r.IncLevelDifference, DELTA_MIN),
            LE(r.FDR, RMATS_FDR_MAX) /\ LE(r.IncLevelDifference, 0 - DELTA_MIN))

\* SUPPA2: dse_parser.py lines 26-31, dse_annotation.py lines 32-37
SUPPA2_class(r) ==
    Select3(GE(r.dPSI, DELTA_MIN) /\ LT(r.pval, PVAL_MAX),
            LE(r.dPSI, 0 - DELTA_MIN) /\ LT(r.pval, PVAL_MAX))

\* PSI-Sigma: dse_parser.py lines 72-77, dse_annotation.py lines 87-92
PSISigma_class(r) ==
    Select3(GE(r.dPSI, PSISIGMA_DPSI_MIN) /\ LT(r.FDR, PVAL_MAX),
            LE(r.dPSI, 0 - PSISIGMA_DPSI_MIN) /\ LT(r.FDR, PVAL_MAX))

\* The uniform_IDs of the classifier's tables, in key order (groupby order)
ClsUIDSeq == <<"e1", "e2">>

ClsUIDs == {ClsUIDSeq[i] : i \in 1..Len(ClsUIDSeq)}

\* df.loc[df.groupby('uniform_ID')['Target Exon'].idxmin()]: per uniform_ID, in
\* key order, the first row with the least Target Exon; rows without a
\* uniform_ID belong to no group
PSISigma_MX_dedup(df) ==
    LET pick(u) ==
            Positions(Len(df), LAMBDA i :
                /\ df[i].uniform_ID = u
                /\ \A j \in 1..Len(df) : df[j].uniform_ID = u =>
                      \/ df[i].Target_Exon < df[j].Target_Exon
                      \/ (df[i].Target_Exon = df[j].Target_Exon /\ i <= j))
    IN Concat([k \in 1..Len(ClsUIDSeq) |-> pick(ClsUIDSeq[k])])

\* str.contains('intron') on the junction names MAJIQ writes
ContainsIntron(junction_name) ==
    junction_name \in {"C1_C2_intron", "C2_C1_intron"}

\* The event-type role filter of the MAJIQ branches
MajiqRole(event_type, r, strand) ==
    CASE event_type = "SE" -> r.spliced_with = "A"
      [] event_type \in {"A3SS", "A5SS"} -> r.junction_name = "Proximal"
      [] event_type \in {"AF", "AL"} -> r.junction_name = "Distal"
      [] event_type = "MX" ->
            r.junction_name \in (IF strand = "+" THEN {"C1_A1", "C2_A2"}
                                 ELSE {"C1_A2", "C2_A1"})
      [] event_type = "RI" -> ContainsIntron(r.junction_name)
      [] OTHER -> FALSE

MajiqEventTypes == {"SE", "A3SS", "A5SS", "AF", "AL", "MX", "RI"}

AnyNaN(cells) == \E c \in 1..Len(cells) : IsNaN(cells[c])

\* group_inclusion[prob_cols].max(axis=1) of one row
RowMaxProb(r) ==
    CHOOSE v \in {r.prob[c][1] : c \in 1..Len(r.prob)} :
        \A c \in 1..Len(r.prob) : r.prob[c][1] <= v

\* dse_parser.py lines 37-65 for the group of one uniform_ID: kept are the
\* positions left by dropna, grp those of the group
Majiq_group_class(df, event_type, grp) ==
    LET strand == df[grp[1]].strand
        incl == SelectSeq(grp, LAMBDA i : MajiqRole(event_type, df[i], strand))
    IN IF Len(incl) = 0 THEN "non-DSE"
       ELSE LET prob_high ==
                    \E k \in 1..Len(incl) : \E c \in 1..Len(df[incl[k]].prob) :
                        GT(df[incl[k]].prob[c], MAJIQ_PROB_MIN)
                best == CHOOSE k \in 1..Len(incl) :
                            /\ \A j \in 1..Len(incl) :
                                  RowMaxProb(df[incl[j]]) <= RowMaxProb(df[incl[k]])
                            /\ \A j \in 1..(k - 1) :
                                  RowMaxProb(df[incl[j]]) < RowMaxProb(df[incl[k]])
                dpsi_val == df[incl[best]].dpsi[1]
            IN IF prob_high
               THEN (IF GT(dpsi_val, 0) THEN "up-regulate" ELSE "down-regulate")
               ELSE "non-DSE"

\* annotate_dse_class, MAJIQ branch (lines 33-65): every row dropna keeps is
\* returned; a row whose uniform_ID is missing is in no group and its class
\* is never assigned; an event type outside the branches leaves every class
\* unassigned
annotate_dse_class_majiq(df, event_type) ==
    LET kept == Positions(Len(df), LAMBDA i :
                    ~AnyNaN(df[i].prob) /\ ~AnyNaN(df[i].dpsi))
        grp(u) == SelectSeq(kept, LAMBDA i : df[i].uniform_ID = u)
    IN Ok([k \in 1..Len(kept) |->
            OutRow(df, kept[k],
                IF df[kept[k]].uniform_ID = NaN \/ event_type \notin MajiqEventTypes
                THEN NaN
                ELSE Majiq_group_class(df, event_type, grp(df[kept[k]].uniform_ID)))])

\* annotate_dse_class (dse_parser.py lines 7-82)
annotate_dse_class(df, event_type, software) ==
    CASE software = "rMATS" ->
            Ok([i \in 1..Len(df) |-> OutRow(df, i, rMATS_class(df[i]))])
      [] software = "SUPPA2" ->
            Ok([i \in 1..Len(df) |-> OutRow(df, i, SUPPA2_class(df[i]))])
      [] software = "MAJIQ" -> annotate_dse_class_majiq(df, event_type)
      [] software = "PSI-Sigma" ->
            LET rows == IF event_type = "MX" THEN PSISigma_MX_dedup(df)
                        ELSE [i \in 1..Len(df) |-> i]
            IN Ok([k \in 1..Len(rows) |->
                     OutRow(df, rows[k], PSISigma_class(df[rows[k]]))])
      [] OTHER -> [status |-> "ValueError", table |-> <<>>]

\* conditions / np.select of the MAJIQ branches of annotate_dse
Majiq_row_class(r) ==
    Select3(GT(r.dpsi[1], 0) /\ GT(r.prob[1], MAJIQ_PROB_MIN),
            LT(r.dpsi[1], 0) /\ GT(r.prob[1], MAJIQ_PROB_MIN))

\* df.groupby('uniform_ID', group_keys=False).apply(select_rows): per group, in
\* key order, the up- or down-regulated rows, or the first row when there is
\* none; rows without a uniform_ID belong to no group
select_rows(df, rows) ==
    LET grp(u) == SelectSeq(rows, LAMBDA i : df[i].uniform_ID = u)
        mask(u) == SelectSeq(grp(u), LAMBDA i :
                      Majiq_row_class(df[i]) \in {"up-regulate", "down-regulate"})
        pick(u) == IF Len(mask(u)) > 0 THEN mask(u)
                   ELSE IF Len(grp(u)) > 0 THEN <<grp(u)[1]>> ELSE <<>>
    IN Concat([k \in 1..Len(ClsUIDSeq) |-> pick(ClsUIDSeq[k])])

\* annotate_dse, MAJIQ branch (lines 39-80) and the final column selection
\* (line 96), which raises KeyError when no branch made a class column
annotate_dse_majiq(df, event_type) ==
    LET kept == Positions(Len(df), LAMBDA i :
                    ~IsNaN(df[i].prob[1]) /\ ~IsNaN(df[i].dpsi[1]))
        role == SelectSeq(kept, LAMBDA i :
                    MajiqRole(event_type, df[i], df[i].strand))
        plus == SelectSeq(role, LAMBDA i : df[i].strand = "+")
        minus == SelectSeq(role, LAMBDA i : df[i].strand = "-")
        rows == CASE event_type = "SE" -> select_rows(df, role)
                  [] event_type = "MX" -> select_rows(df, plus \o minus)
                  [] OTHER -> role
    IN IF event_type \notin MajiqEventTypes
       THEN [status |-> "KeyError", table |-> <<>>]
       ELSE Ok([k \in 1..Len(rows) |->
                  OutRow(df, rows[k], Majiq_row_class(df[rows[k]]))])

\* annotate_dse (dse_annotation.py lines 11-97)
annotate_dse(df, event_type, software) ==
    CASE software = "rMATS" ->
            Ok([i \in 1..Len(df) |-> OutRow(df, i, rMATS_class(df[i]))])
      [] software = "SUPPA2" ->
            Ok([i \in 1..Len(df) |-> OutRow(df, i, SUPPA2_class(df[i]))])
      [] software = "MAJIQ" -> annotate_dse_majiq(df, event_type)
      [] software = "PSI-Sigma" ->
            LET rows == IF event_type = "MX" THEN PSISigma_MX_dedup(df)
                        ELSE [i \in 1..Len(df) |-> i]
            IN Ok([k \in 1..Len(rows) |->
                     OutRow(df, rows[k], PSISigma_class(df[rows[k]]))])
      [] OTHER -> [status |-> "ValueError", table |-> <<>>]

\* The columns of a parsed table that the classifiers read
ParsedColumns(software) ==
    CASE software = "rMATS" -> {"uniform_ID", "FDR", "IncLevelDifference"}
      [] software = "SUPPA2" -> {"uniform_ID", "dPSI", "p-val"}
      [] software = "MAJIQ" ->
            {"uniform_ID", "junction_name", "spliced_with", "strand",
             "probability_changing", "median_dpsi"}
      [] software = "PSI-Sigma" -> {"uniform_ID", "dPSI (%)", "FDR (BH)", "Target Exon"}
      [] OTHER -> {"uniform_ID"}

\* The columns of a classifier's output
OwnColumns == {"uniform_ID", "class"}

Raised(error) == [status |-> error, table |-> <<>>]

\* annotate_dse_class on a table that has only uniform_ID and class: rMATS
\* fails at df['FDR'] (line 14), SUPPA2 at [...][0] of the empty list of dPSI
\* columns (line 24), PSI-Sigma at ['Target Exon'] or df['dPSI (%)'] (lines 69,
\* 70).  MAJIQ finds no probability or dpsi column, dropna(subset=[]) keeps
\* every row, and the first group fails at the role column (lines 39-50);
\* without a group, or with an event type outside the branches, the table
\* comes back as it was
annotate_dse_class_own_output(df, event_type, software) ==
    CASE software = "rMATS" -> Raised("KeyError")
      [] software = "SUPPA2" -> Raised("IndexError")
      [] software = "MAJIQ" ->
            IF event_type \in MajiqEventTypes
                  /\ \E i \in 1..Len(df) : df[i].uniform_ID # NaN
            THEN Raised("KeyError")
            ELSE Ok(df)
      [] software = "PSI-Sigma" -> Raised("KeyError")
      [] OTHER -> Raised("ValueError")

\* annotate_dse on such a table: MAJIQ fails at dpsi_cols[0] (line 42)
annotate_dse_own_output(df, event_type, software) ==
    CASE software = "rMATS" -> Raised("KeyError")
      [] software = "SUPPA2" -> Raised("IndexError")
      [] software = "MAJIQ" -> Raised("IndexError")
      [] software = "PSI-Sigma" -> Raised("KeyError")
      [] OTHER -> Raised("ValueError")

\* The classifiers on a table with the given columns: a parsed table, or a
\* classifier's own output
annotate_dse_class_table(df, columns, event_type, software) ==
    IF columns = OwnColumns
    THEN annotate_dse_class_own_output(df, event_type, software)
    ELSE annotate_dse_class(df, event_type, software)

annotate_dse_table(df, columns, event_type, software) ==
    IF columns = OwnColumns
    THEN annotate_dse_own_output(df, event_type, software)
    ELSE annotate_dse(df, event_type, software)

(***************************************************************************)
(* Classifier unit: one parsed table is classified by both implementations *)
(***************************************************************************)
MaxClsRows == 2

Cells(values) == {<<v>> : v \in values}

rMATS_cls_rows ==
    [uniform_ID : ClsUIDs, FDR : Cells({10, 11}) \cup {<<>>},
     IncLevelDifference : Cells({0 - 50, 0 - 49, 49, 50}) \cup {<<>>}]

SUPPA2_cls_rows ==
    [uniform_ID : ClsUIDs, dPSI : Cells({0 - 50, 49, 50}) \cup {<<>>},
     pval : Cells({49, 50})]

PSISigma_cls_rows ==
    [uniform_ID : ClsUIDs, dPSI : Cells({0 - 500, 499, 500}),
     FDR : Cells({49, 50}), Target_Exon : {1, 2}]
    \cup {[uniform_ID |-> NaN, dPSI |-> <<500>>, FDR |-> <<49>>, Target_Exon |-> 1],
          [uniform_ID |-> "e1", dPSI |-> <<>>, FDR |-> <<49>>, Target_Exon |-> 1]}

\* The junction rows MAJIQ reports for an event type: the first is the one the
\* role filter selects (on the + strand for MX), the second one it does not
MajiqJunctions(event_type) ==
    CASE event_type = "SE" ->
            {[junction_name |-> "C1_A", spliced_with |-> "A"],
             [junction_name |-> "C1_C2", spliced_with |-> "C2"]}
      [] event_type \in {"A3SS", "A5SS", "AF", "AL"} ->
            {[junction_name |-> "Proximal", spliced_with |-> "A"],
             [junction_name |-> "Distal", spliced_with |-> "A"]}
      [] event_type = "MX" ->
            {[junction_name |-> "C1_A1", spliced_with |-> "A1"],
             [junction_name |-> "C1_A2", spliced_with |-> "A2"]}
      [] event_type = "RI" ->
            {[junction_name |-> "C1_C2_intron", spliced_with |-> "C2"],
             [junction_name |-> "C1_C2_spliced", spliced_with |-> "C2"]}

\* The strand is part of the uniform_ID, so the rows of an event agree on it
StrandOf(uid) == IF uid = "e2" THEN "-" ELSE "+"

MajiqClsRow(uid, j, prob, dpsi) ==
    [uniform_ID |-> uid, junction_name |-> j.junction_name,
     spliced_with |-> j.spliced_with, strand |-> StrandOf(uid),
     prob |-> prob, dpsi |-> dpsi]

MAJIQ_cls_rows(event_type) ==
    {MajiqClsRow(uid, j, <<p>>, <<d>>) :
        uid \in ClsUIDs, j \in MajiqJunctions(event_type),
        p \in Cells({950, 990}), d \in Cells({0 - 100, 0, 100})}
    \cup {MajiqClsRow(uid, j, <<<<990>>>>, <<<<100>>>>) :
            uid \in {NaN}, j \in MajiqJunctions(event_type)}
    \cup {MajiqClsRow("e1", j, <<<<>>>>, <<<<100>>>>) :
            j \in MajiqJunctions(event_type)}

\* The event types a tool's tables are classified for
ClsEventTypes(software) ==
    CASE software = "MAJIQ" -> MajiqEventTypes
      [] software = "PSI-Sigma" -> {"SE", "MX"}
      [] OTHER -> {"SE"}

ClsRows(software, event_type) ==
    CASE software = "rMATS" -> rMATS_cls_rows
      [] software = "SUPPA2" -> SUPPA2_cls_rows
      [] software = "PSI-Sigma" -> PSISigma_cls_rows
      [] software = "MAJIQ" -> MAJIQ_cls_rows(event_type)
      [] OTHER -> {}

\* rMATS and SUPPA2 report an event on one row; MAJIQ reports one row per
\* junction of an event and PSI-Sigma may report an event on several rows
OneRowPerEventTools == {"rMATS", "SUPPA2"}

Cls_Init ==
    /\ \E software \in {"rMATS", "SUPPA2", "PSI-Sigma", "MAJIQ", "Whippet"} :
          \E event_type \in ClsEventTypes(software) : \E k \in 0..MaxClsRows :
              \E df \in [1..k -> ClsRows(software, event_type)] :
                  /\ software \in OneRowPerEventTools =>
                        \A i, j \in 1..k :
                            df[i].uniform_ID = df[j].uniform_ID => i = j
                  /\ cls_in = [software |-> software, event_type |-> event_type,
                               df |-> df, columns |-> ParsedColumns(software)]
    /\ cls_out = [annotate_dse_class |-> NotRun, annotate_dse |-> NotRun]

Run_annotate_dse_class ==
    /\ cls_out.annotate_dse_class = NotRun
    /\ cls_out' = [cls_out EXCEPT !.annotate_dse_class =
                      annotate_dse_class_table(cls_in.df, cls_in.columns,
                                               cls_in.event_type, cls_in.software)]
    /\ UNCHANGED cls_in

Run_annotate_dse ==
    /\ cls_out.annotate_dse = NotRun
    /\ cls_out' = [cls_out EXCEPT !.annotate_dse =
                      annotate_dse_table(cls_in.df, cls_in.columns,
                                         cls_in.event_type, cls_in.software)]
    /\ UNCHANGED cls_in

\* Every pairing of a tool name with an event type, the unsupported ones
\* included ("XX" is no event type of any tool), with a table of at most one
\* row of the kind the tool's parser writes
Cls_Init_AnyConfiguration ==
    /\ \E software \in {"rMATS", "SUPPA2", "PSI-Sigma", "MAJIQ", "Whippet"} :
          \E event_type \in {"SE", "A3SS", "A5SS", "AF", "AL", "RI", "MX", "XX"} :
              \E k \in 0..1 :
                  \E df \in [1..k -> ClsRows(software,
                                        IF event_type = "XX" THEN "SE" ELSE event_type)] :
                      cls_in = [software |-> software, event_type |-> event_type,
                                df |-> df, columns |-> ParsedColumns(software)]
    /\ cls_out = [annotate_dse_class |-> NotRun, annotate_dse |-> NotRun]

\* A classifier's own output handed to the classifiers again: rows of
\* uniform_ID and class only
Cls_Init_OwnOutput ==
    /\ \E software \in {"rMATS", "SUPPA2", "PSI-Sigma", "MAJIQ", "Whippet"} :
          \E event_type \in {"SE", "A3SS", "A5SS", "AF", "AL", "RI", "MX", "XX"} :
              \E k \in 0..MaxClsRows :
                  \E df \in [1..k -> [uniform_ID : ClsUIDs \cup {NaN},
                                      class : {"up-regulate", "down-regulate", "non-DSE"}]] :
                      cls_in = [software |-> software, event_type |-> event_type,
                                df |-> df, columns |-> OwnColumns]
    /\ cls_out = [annotate_dse_class |-> NotRun, annotate_dse |-> NotRun]

(***************************************************************************)
(* Double-precision arithmetic of float(), np.mean and the comparisons of  *)
(* ase_extract                                                             *)
(*                                                                         *)
(* A non-negative double is the sequence of the binary digits, least       *)
(* significant first and without leading zeros, of its value in units of   *)
(* 2^-FRAC_BITS; every operation rounds the exact result to MANT_BITS      *)
(* significant digits, ties to even.  The values of the model are 0 or at  *)
(* least 2^(MANT_BITS - FRAC_BITS), so every double is a whole number of   *)
(* units.                                                                  *)
(***************************************************************************)
MANT_BITS == 53

FRAC_BITS == 64

Zeros(k) == [i \in 1..k |-> 0]

\* Drop the leading zeros
Norm(b) ==
    IF \A i \in 1..Len(b) : b[i] = 0 THEN <<>>
    ELSE SubSeq(b, 1, CHOOSE i \in 1..Len(b) :
                         b[i] = 1 /\ \A j \in (i + 1)..Len(b) : b[j] = 0)

RECURSIVE BitsOfNat(_)
BitsOfNat(k) == IF k = 0 THEN <<>> ELSE <<k % 2>> \o BitsOfNat(k \div 2)

BitAt(b, i) == IF i <= Len(b) THEN b[i] ELSE 0

\* Digits lo..hi of a + b with the carry into digit lo, and the carry out
RECURSIVE AddRange(_, _, _, _, _)
AddRange(a, b, lo, hi, carry) ==
    IF lo = hi
    THEN [s |-> <<(BitAt(a, lo) + BitAt(b, lo) + carry) % 2>>,
          c |-> (BitAt(a, lo) + BitAt(b, lo) + carry) \div 2]
    ELSE CHOOSE res \in UNION {{[s |-> low.s \o high.s, c |-> high.c] :
                    high \in {AddRange(a, b, (lo + hi) \div 2 + 1, hi, low.c)}} :
                    low \in {AddRange(a, b, lo, (lo + hi) \div 2, carry)}} : TRUE

AddBits(a, b) ==
    LET len == IF Len(a) > Len(b) THEN Len(a) ELSE Len(b)
    IN IF len = 0 THEN <<>>
       ELSE CHOOSE res \in {sum.s \o (IF sum.c = 1 THEN <<1>> ELSE <<>>) :
                               sum \in {AddRange(a, b, 1, len, 0)}} : TRUE

\* Quotient digits lo..hi and remainder of b by d, from digit hi down, with
\* the remainder of the digits above hi carried in
RECURSIVE DivRange(_, _, _, _, _)
DivRange(b, d, lo, hi, rem) ==
    IF lo > hi THEN [q |-> <<>>, r |-> rem]
    ELSE IF lo = hi
    THEN [q |-> <<(2 * rem + b[lo]) \div d>>, r |-> (2 * rem + b[lo]) % d]
    ELSE CHOOSE res \in UNION {{[q |-> bot.q \o top.q, r |-> bot.r] :
                    bot \in {DivRange(b, d, lo, (lo + hi) \div 2, top.r)}} :
                    top \in {DivRange(b, d, (lo + hi) \div 2 + 1, hi, rem)}} : TRUE

\* Round to nearest, ties to even: b holds the digits of the exact value's
\* whole part, sticky tells that a non-zero fraction of a unit was cut off
RoundToDouble(b, sticky) ==
    IF Len(b) <= MANT_BITS THEN b
    ELSE LET cut == Len(b) - MANT_BITS
             kept == SubSeq(b, cut + 1, Len(b))
             guard == b[cut]
             rest == sticky \/ \E i \in 1..(cut - 1) : b[i] = 1
             up == guard = 1 /\ (rest \/ kept[1] = 1)
         IN Zeros(cut) \o (IF up THEN AddBits(kept, <<1>>) ELSE kept)

\* x + y of two doubles
FloatAdd(x, y) ==
    CHOOSE res \in {RoundToDouble(sum, FALSE) : sum \in {AddBits(x, y)}} : TRUE

\* x / k of a double by a count
FloatDivInt(x, k) ==
    CHOOSE res \in UNION {{RoundToDouble(quot, qr.r # 0) : quot \in {Norm(qr.q)}} :
                             qr \in {DivRange(x, k, 1, Len(x), 0)}} : TRUE

\* The double nearest to num / den
FloatOfRatio(num, den) ==
    CHOOSE res \in {FloatDivInt(scaled, den) :
                       scaled \in {Zeros(FRAC_BITS) \o BitsOfNat(num)}} : TRUE

FloatLE(x, y) ==
    \/ Len(x) < Len(y)
    \/ /\ Len(x) = Len(y)
       /\ \/ x = y
          \/ \E i \in 1..Len(x) :
                x[i] < y[i] /\ \A j \in (i + 1)..Len(x) : x[j] = y[j]

RECURSIVE Pow10(_)
Pow10(k) == IF k = 0 THEN 1 ELSE 10 * Pow10(k - 1)

\* The texts float() accepts among those of the replicate lists: digits with
\* an optional fraction
IsFloatText(s) ==
    LET parts == Split(s, ".")
    IN /\ Len(parts) \in {1, 2}
       /\ \A k \in 1..Len(parts) : IsDigitStr(parts[k])

\* float(s): the numerator and denominator of the decimal, then its double
DecimalNum(s) == DigitsToNat(Concat(Split(s, ".")))

DecimalDen(s) ==
    LET parts == Split(s, ".")
    IN IF Len(parts) = 2 THEN Pow10(Len(parts[2])) ELSE 1

PyFloat(s) == FloatOfRatio(DecimalNum(s), DecimalDen(s))

\* Left-to-right sum of doubles, as np.add.reduce does for short lists
RECURSIVE FloatSum(_)
FloatSum(xs) ==
    IF Len(xs) = 1 THEN xs[1]
    ELSE FloatAdd(FloatSum(SubSeq(xs, 1, Len(xs) - 1)), xs[Len(xs)])

(***************************************************************************)
(* ASE extractor: ase_extract (dse_parser.py lines 85-149)                 *)
(*                                                                         *)
(* Replicate lists and PSI cells are text; a missing cell is NA.  A mean   *)
(* is a double, nan, or the ValueError float() raised on an entry.         *)
(***************************************************************************)
TXT_NA == <<"N", "A">>

TXT_na == <<"n", "a">>

\* The bounds of the closed interval as the code writes them
ASE_LO == <<"0", ".", "0", "5">>

ASE_HI == <<"0", ".", "9", "5">>

ASE_LO_PERCENT == <<"5">>

ASE_HI_PERCENT == <<"9", "5">>

NanMean == [kind |-> "nan", v |-> <<>>]

\* np.mean([float(i) for i in str(x).split(sep) if <i is not the NA mark>])
\* if pd.notnull(x) else np.nan; the NA mark is 'NA' (rMATS) or any case of
\* 'na' (PSI-Sigma)
ReplicateMean(x, sep, anyCase) ==
    IF x = NA THEN NanMean
    ELSE LET kept == SelectSeq(Split(x, sep), LAMBDA i :
                        IF anyCase THEN LowerStr(i) # TXT_na ELSE i # TXT_NA)
         IN IF \E k \in 1..Len(kept) : ~IsFloatText(kept[k])
            THEN [kind |-> "ValueError", v |-> <<>>]
            ELSE IF Len(kept) = 0 THEN NanMean
            ELSE [kind |-> "value",
                  v |-> FloatDivInt(FloatSum([k \in 1..Len(kept) |-> PyFloat(kept[k])]),
                                    Len(kept))]

\* A cell pandas read as a number
CellValue(x) ==
    IF x = NA THEN NanMean ELSE [kind |-> "value", v |-> PyFloat(x)]

\* (m >= lo) & (m <= hi), Series.between(lo, hi): false for nan
Between(m, lo, hi) ==
    m.kind = "value" /\ FloatLE(PyFloat(lo), m.v) /\ FloatLE(m.v, PyFloat(hi))

AseResult(means_test, means_control, test, control) ==
    IF \E i \in 1..Len(means_test) :
          "ValueError" \in {means_test[i].kind, means_control[i].kind}
    THEN [status |-> "ValueError", test |-> {}, control |-> {}]
    ELSE [status |-> "ok", test |-> test, control |-> control]

\* The rows whose mean lies in the interval
InRange(means, lo, hi) == {i \in 1..Len(means) : Between(means[i], lo, hi)}

\* rMATS, lines 95-99: one membership test per row
ase_extract_rmats(df) ==
    CHOOSE res \in UNION {{
        AseResult(mt, mc,
                  {df[i].uniform_ID : i \in InRange(mt, ASE_LO, ASE_HI)},
                  {df[i].uniform_ID : i \in InRange(mc, ASE_LO, ASE_HI)}) :
            mc \in {[i \in 1..Len(df) |-> ReplicateMean(df[i].IncLevel2, ",", FALSE)]}} :
            mt \in {[i \in 1..Len(df) |-> ReplicateMean(df[i].IncLevel1, ",", FALSE)]}} :
        TRUE

\* groupby('uniform_ID')[col].apply(lambda g: g.between(lo, hi).any()): the
\* keys with a row in the interval; rows without a uniform_ID are in no group
GroupsInRange(df, means, lo, hi) ==
    {df[i].uniform_ID : i \in InRange(means, lo, hi)} \ {NaN}

\* PSI-Sigma, lines 136-144
ase_extract_psisigma(df) ==
    CHOOSE res \in UNION {{
        AseResult(mt, mc,
                  GroupsInRange(df, mt, ASE_LO_PERCENT, ASE_HI_PERCENT),
                  GroupsInRange(df, mc, ASE_LO_PERCENT, ASE_HI_PERCENT)) :
            mc \in {[i \in 1..Len(df) |-> ReplicateMean(df[i].N_Values, "|", TRUE)]}} :
            mt \in {[i \in 1..Len(df) |-> ReplicateMean(df[i].T_Values, "|", TRUE)]}} :
        TRUE

\* The role filter of lines 117-127: an event type outside the branches
\* filters nothing
AseRole(event_type, r) ==
    IF event_type = "MX"
    THEN \/ (r.strand = "+" /\ r.junction_name \in {"C1_A1", "C2_A2"})
         \/ (r.strand = "-" /\ r.junction_name \in {"C1_A2", "C2_A1"})
    ELSE event_type \in MajiqEventTypes => MajiqRole(event_type, r, r.strand)

\* MAJIQ, lines 115-134: the second median_psi column is the test group, the
\* first the control group
ase_extract_majiq(df, event_type) ==
    LET rows == SelectSeq(df, LAMBDA r : AseRole(event_type, r))
    IN CHOOSE res \in UNION {{
           AseResult(mt, mc, GroupsInRange(rows, mt, ASE_LO, ASE_HI),
                     GroupsInRange(rows, mc, ASE_LO, ASE_HI)) :
               mc \in {[i \in 1..Len(rows) |-> CellValue(rows[i].median_psi[1])]}} :
               mt \in {[i \in 1..Len(rows) |-> CellValue(rows[i].median_psi[2])]}} :
           TRUE

\* event_map of line 102
SUPPA2_event_code(event_type) ==
    CASE event_type = "A3SS" -> "A3"
      [] event_type = "A5SS" -> "A5"
      [] OTHER -> event_type

\* DataFrame.mean(axis=1) over the columns of one sample group: missing
\* values are skipped
RowMean(cells) ==
    LET kept == SelectSeq(cells, LAMBDA c : c # NA)
    IN IF Len(kept) = 0 THEN NanMean
       ELSE [kind |-> "value",
             v |-> FloatDivInt(FloatSum([k \in 1..Len(kept) |-> PyFloat(kept[k])]),
                               Len(kept))]

\* SUPPA2, lines 101-113: the table is the psivec file, whose rows are kept
\* when their id holds the event code; sample_groups is list(set(..)), so
\* which group is sample_groups[0] is the order the set iterates in
ase_extract_suppa2(file, event_type, sample_groups) ==
    LET rows == SelectSeq(file, LAMBDA r : r.code = SUPPA2_event_code(event_type))
    IN CHOOSE res \in UNION {{
           AseResult(mt, mc,
                     {rows[i].id : i \in InRange(mt, ASE_LO, ASE_HI)},
                     {rows[i].id : i \in InRange(mc, ASE_LO, ASE_HI)}) :
               mc \in {[i \in 1..Len(rows) |-> RowMean(rows[i].psi[sample_groups[2]])]}} :
               mt \in {[i \in 1..Len(rows) |-> RowMean(rows[i].psi[sample_groups[1]])]}} :
           TRUE

\* ase_extract without the SUPPA2 branch, which reads its table from a file
ase_extract(df, software, event_type) ==
    CASE software = "rMATS" -> ase_extract_rmats(df)
      [] software = "MAJIQ" -> ase_extract_majiq(df, event_type)
      [] software = "PSI-Sigma" -> ase_extract_psisigma(df)
      [] OTHER -> [status |-> "ValueError", test |-> {}, control |-> {}]

(***************************************************************************)
(* ASE unit: one table goes through ase_extract                            *)
(***************************************************************************)
\* Replicates per sample group
MaxReps == 2

\* The texts of 1..k entries joined by sep
RECURSIVE ReplicateLists(_, _, _)
ReplicateLists(entries, sep, k) ==
    IF k = 1 THEN entries
    ELSE LET shorter == ReplicateLists(entries, sep, k - 1)
         IN shorter \cup {l \o <<sep>> \o e : l \in shorter, e \in entries}

rMATS_entries ==
    {<<"0", ".", "0", "5">>,
     <<"0", ".", "9", "5">>,
     <<"0", ".", "0", "4", "9">>,
     <<"0", ".", "9", "5", "1">>,
     <<"0", ".", "0", "1">>,
     <<"0", ".", "0", "9">>,
     <<"N", "A">>}

PSISigma_entries ==
    {<<"5">>,
     <<"9", "5">>,
     <<"4", ".", "9">>,
     <<"9", "5", ".", "1">>,
     <<"1">>,
     <<"9">>,
     <<"n", "a">>,
     <<"N", "A">>}

PSI_cells ==
    {<<"0", ".", "0", "5">>,
     <<"0", ".", "9", "5">>,
     <<"0", ".", "0", "4", "9">>,
     <<"0", ".", "9", "5", "1">>} \cup {NA}

TXT_HALF == <<"0", ".", "5">>

TXT_FIFTY == <<"5", "0">>

\* A row with the replicate lists of the two groups in the given columns
rMATS_ase_row(uid, test, control) ==
    [uniform_ID |-> uid, IncLevel1 |-> test, IncLevel2 |-> control]

PSISigma_ase_row(uid, test, control) ==
    [uniform_ID |-> uid, T_Values |-> test, N_Values |-> control]

MAJIQ_ase_row(uid, j, control, test) ==
    [uniform_ID |-> uid, junction_name |-> j.junction_name,
     spliced_with |-> j.spliced_with, strand |-> StrandOf(uid),
     median_psi |-> <<control, test>>]

\* The tables of the unit: a row with one varied group, alone or followed by
\* a second row
AseTables(software, event_type) ==
    CASE software = "rMATS" ->
            LET lists == ReplicateLists(rMATS_entries, ",", MaxReps) \cup {NA}
                first == {rMATS_ase_row("e1", l, TXT_HALF) : l \in lists}
                            \cup {rMATS_ase_row("e1", TXT_HALF, l) : l \in lists}
                second == {rMATS_ase_row("e2", ASE_LO, ASE_HI),
                           rMATS_ase_row(NaN, TXT_HALF, TXT_HALF)}
            IN {<<r>> : r \in first} \cup {<<r, t>> : r \in first, t \in second}
      [] software = "PSI-Sigma" ->
            LET lists == ReplicateLists(PSISigma_entries, "|", MaxReps) \cup {NA}
                first == {PSISigma_ase_row("e1", l, TXT_FIFTY) : l \in lists}
                            \cup {PSISigma_ase_row("e1", TXT_FIFTY, l) : l \in lists}
                second == {PSISigma_ase_row("e1", TXT_FIFTY, TXT_FIFTY),
                           PSISigma_ase_row(NaN, TXT_FIFTY, TXT_FIFTY)}
            IN {<<r>> : r \in first} \cup {<<r, t>> : r \in first, t \in second}
      [] software = "MAJIQ" ->
            LET first == {MAJIQ_ase_row(uid, j, c, t) :
                             uid \in ClsUIDs, j \in MajiqJunctions(event_type),
                             c \in {ASE_LO, NA}, t \in PSI_cells}
                second == {MAJIQ_ase_row(uid, j, TXT_HALF, TXT_HALF) :
                              uid \in {"e1", NaN}, j \in MajiqJunctions(event_type)}
            IN {<<r>> : r \in first} \cup {<<r, t>> : r \in first, t \in second}
      [] software = "SUPPA2" ->
            {<<[id |-> "e1", code |-> code,
                psi |-> [A |-> cells, B |-> <<TXT_HALF>>]]>> :
                code \in {"SE", "A3"},
                cells \in UNION {[1..k -> PSI_cells \cup {TXT_HALF}] : k \in 1..MaxReps}}
      [] OTHER -> {<<>>}

AseEventTypes(software) ==
    CASE software = "MAJIQ" -> MajiqEventTypes
      [] software = "SUPPA2" -> {"SE", "A3SS"}
      [] OTHER -> {"SE"}

AseNotRun == [status |-> "unset", test |-> {}, control |-> {}]

Ase_Init ==
    /\ \E software \in {"rMATS", "SUPPA2", "PSI-Sigma", "MAJIQ", "Whippet"} :
          \E event_type \in AseEventTypes(software) :
              \E df \in AseTables(software, event_type) :
                  psivec = [software |-> software, event_type |-> event_type,
                            df |-> df]
    /\ ase_ids = AseNotRun

\* ase_extract on a table in memory
Run_ase_extract ==
    /\ ase_ids = AseNotRun
    /\ psivec.software # "SUPPA2"
    /\ ase_ids' = ase_extract(psivec.df, psivec.software, psivec.event_type)
    /\ UNCHANGED psivec

\* ase_extract for SUPPA2: the two sample groups come out of a set in either
\* order
Run_ase_extract_suppa2 ==
    /\ ase_ids = AseNotRun
    /\ psivec.software = "SUPPA2"
    /\ \E sample_groups \in {<<"A", "B">>, <<"B", "A">>} :
          ase_ids' = ase_extract_suppa2(psivec.df, psivec.event_type, sample_groups)
    /\ UNCHANGED psivec

(***************************************************************************)
(* MAJIQ canonicalizers: the loop over the event_id groups                 *)
(* (majiq_parser.py)                                                       *)
(*                                                                         *)
(* What the body of one iteration does with uniform_id: it binds an        *)
(* identifier ("id"), binds pd.NA in the except clause ("NA"), leaves the  *)
(* name as the previous iteration left it ("unassigned"), or lets an       *)
(* exception out that the except clause does not name ("TypeError").       *)
(***************************************************************************)
IdOf(text) == [kind |-> "id", id |-> text]

NAOut == [kind |-> "NA", id |-> NA]

Unassigned == [kind |-> "unassigned", id |-> NA]

TypeErrorOut == [kind |-> "TypeError", id |-> NA]

\* [.. for x in text.split('-') if x.strip()]
CoordParts(text) == SelectSeq(Split(text, "-"), LAMBDA x : Len(x) > 0)

\* Unpacking into two names raises ValueError unless there are two parts
TwoParts(text) == Len(CoordParts(text)) = 2

\* int(x) if x.isdigit() else x, as the f-string prints it
CoordText(text, i) ==
    LET x == CoordParts(text)[i]
    IN IF IsDigitStr(x) THEN NatToStr(DigitsToNat(x)) ELSE x

COLON == <<":">>

DASH == <<"-">>

parse_MAJIQ_SE_body(group) ==
    IF MAJIQ_SE_ID(group) = NA THEN NAOut ELSE IdOf(MAJIQ_SE_ID(group))

\* parse_MAJIQ_A3SS_A5SS, lines 42-66
parse_MAJIQ_A3SS_A5SS_body(group, event_type) ==
    LET gene_id == NormGeneSearch(group[1].gene_id)
        strand == group[1].strand
        chrom == MajiqChrom(group[1].seqid)
        prox == RowsWhere(group, "junction_name", <<"Proximal">>)
        dist == RowsWhere(group, "junction_name", <<"Distal">>)
        id(code) ==
            Concat(<<gene_id, <<";">>, code, COLON, chrom, COLON,
                     CoordText(prox[1].junction_coord, 1), DASH,
                     CoordText(prox[1].junction_coord, 2), COLON,
                     CoordText(dist[1].junction_coord, 1), DASH,
                     CoordText(dist[1].junction_coord, 2), COLON, strand>>)
    IN IF Len(prox) = 0 THEN NAOut                              \* IndexError
       ELSE IF ~TwoParts(prox[1].junction_coord) THEN NAOut     \* ValueError
       ELSE IF Len(dist) = 0 THEN NAOut                         \* IndexError
       ELSE IF ~TwoParts(dist[1].junction_coord) THEN NAOut     \* ValueError
       ELSE IF event_type = "A3SS" THEN IdOf(id(<<"A", "3">>))
       ELSE IF event_type = "A5SS" THEN IdOf(id(<<"A", "5">>))
       ELSE Unassigned

\* parse_MAJIQ_AF_AL, lines 80-119
parse_MAJIQ_AF_AL_body(group, event_type) ==
    LET gene_id == NormGeneSearch(group[1].gene_id)
        strand == group[1].strand
        chrom == MajiqChrom(group[1].seqid)
        prox == RowsWhere(group, "junction_name", <<"Proximal">>)
        dist == RowsWhere(group, "junction_name", <<"Distal">>)
        distal_first(code) ==
            Concat(<<gene_id, <<";">>, code, COLON, chrom, COLON,
                     CoordText(dist[1].spliced_with_coord, 1), COLON,
                     CoordText(dist[1].spliced_with_coord, 2), DASH,
                     CoordText(prox[1].junction_coord, 2), COLON,
                     CoordText(prox[1].spliced_with_coord, 1), COLON,
                     CoordText(prox[1].spliced_with_coord, 2), DASH,
                     CoordText(dist[1].junction_coord, 2), COLON, strand>>)
        proximal_first(code) ==
            Concat(<<gene_id, <<";">>, code, COLON, chrom, COLON,
                     CoordText(prox[1].junction_coord, 1), DASH,
                     CoordText(prox[1].spliced_with_coord, 1), COLON,
                     CoordText(prox[1].spliced_with_coord, 2), COLON,
                     CoordText(dist[1].junction_coord, 1), DASH,
                     CoordText(dist[1].spliced_with_coord, 1), COLON,
                     CoordText(dist[1].spliced_with_coord, 2), COLON, strand>>)
    IN IF Len(prox) = 0 THEN NAOut
       ELSE IF ~TwoParts(prox[1].junction_coord) THEN NAOut
       ELSE IF ~TwoParts(prox[1].spliced_with_coord) THEN NAOut
       ELSE IF Len(dist) = 0 THEN NAOut
       ELSE IF ~TwoParts(dist[1].junction_coord) THEN NAOut
       ELSE IF ~TwoParts(dist[1].spliced_with_coord) THEN NAOut
       ELSE IF event_type = "AF"
            THEN IdOf(IF strand = <<"+">> THEN distal_first(<<"A", "F">>)
                      ELSE proximal_first(<<"A", "F">>))
       ELSE IF event_type = "AL"
            THEN IdOf(IF strand = <<"+">> THEN proximal_first(<<"A", "L">>)
                      ELSE distal_first(<<"A", "L">>))
       ELSE Unassigned

\* One branch of parse_MAJIQ_RI (lines 142-158 and 160-176): the intron row
\* with the given junction name; c1 and c2 name the columns the flanking
\* exons are read from
parse_MAJIQ_RI_branch(group, intron_name, c1_col, c2_col) ==
    LET gene_id == NormGeneSearch(group[1].gene_id)
        strand == group[1].strand
        chrom == MajiqChrom(group[1].seqid)
        intron == RowsWhere(group, "junction_name", intron_name)
        jc == CoordParts(intron[1].junction_coord)
        id(start, end) ==
            Concat(<<gene_id, <<";">>, <<"R", "I">>, COLON, chrom, COLON, start, COLON,
                     IntToStr(DigitsToNat(jc[1]) - 1), DASH,
                     IntToStr(DigitsToNat(jc[2]) + 1), COLON, end, COLON, strand>>)
    IN IF Len(intron) = 0 THEN NAOut
       ELSE IF ~TwoParts(intron[1].junction_coord) THEN NAOut
       ELSE IF ~TwoParts(intron[1].spliced_with_coord) THEN NAOut
       ELSE IF ~TwoParts(intron[1].reference_exon_coord) THEN NAOut
       ELSE IF ~IsDigitStr(jc[1]) \/ ~IsDigitStr(jc[2])
            THEN TypeErrorOut                  \* str - int, str + int
       ELSE IF strand = <<"+">>
            THEN IdOf(id(CoordText(intron[1][c1_col], 1), CoordText(intron[1][c2_col], 2)))
            ELSE IdOf(id(CoordText(intron[1][c2_col], 1), CoordText(intron[1][c1_col], 2)))

\* parse_MAJIQ_RI, lines 133-178
parse_MAJIQ_RI_body(group) ==
    IF group[1].spliced_with = <<"C1">>
    THEN parse_MAJIQ_RI_branch(group, <<"C2_C1_intron">>,
                               "spliced_with_coord", "reference_exon_coord")
    ELSE IF group[1].spliced_with = <<"C2">>
    THEN parse_MAJIQ_RI_branch(group, <<"C1_C2_intron">>,
                               "reference_exon_coord", "spliced_with_coord")
    ELSE Unassigned

\* parse_MAJIQ_MX, lines 192-217
parse_MAJIQ_MX_body(group) ==
    LET gene_id == NormGeneSearch(group[1].gene_id)
        strand == group[1].strand
        chrom == MajiqChrom(group[1].seqid)
        c1a1 == RowsWhere(group, "junction_name", <<"C1_A1">>)
        c2a2 == RowsWhere(group, "junction_name", <<"C2_A2">>)
        exon1 == RowsWhere(group, "spliced_with", <<"A1">>)
        exon2 == RowsWhere(group, "spliced_with", <<"A2">>)
        id(left, right, first, second) ==
            Concat(<<gene_id, <<";">>, <<"M", "X">>, COLON, chrom, COLON,
                     IntToStr(left), DASH,
                     IntToStr(IntPart(first[1].spliced_with_coord, 1)), COLON,
                     IntToStr(IntPart(first[1].spliced_with_coord, 2)), DASH,
                     IntToStr(right), COLON,
                     IntToStr(left), DASH,
                     IntToStr(IntPart(second[1].spliced_with_coord, 1)), COLON,
                     IntToStr(IntPart(second[1].spliced_with_coord, 2)), DASH,
                     IntToStr(right), COLON, strand>>)
    IN IF Len(c1a1) = 0 THEN NAOut
       ELSE IF ~TwoInts(c1a1[1].junction_coord) THEN NAOut
       ELSE IF Len(c2a2) = 0 THEN NAOut
       ELSE IF ~TwoInts(c2a2[1].junction_coord) THEN NAOut
       ELSE IF Len(exon1) = 0 THEN NAOut
       ELSE IF ~TwoInts(exon1[1].spliced_with_coord) THEN NAOut
       ELSE IF Len(exon2) = 0 THEN NAOut
       ELSE IF ~TwoInts(exon2[1].spliced_with_coord) THEN NAOut
       ELSE IF strand = <<"+">>
            THEN IdOf(id(IntPart(c1a1[1].junction_coord, 1),
                         IntPart(c2a2[1].junction_coord, 2), exon1, exon2))
            ELSE IdOf(id(IntPart(c2a2[1].junction_coord, 1),
                         IntPart(c1a1[1].junction_coord, 2), exon2, exon1))

MajiqParsers ==
    {"parse_MAJIQ_SE", "parse_MAJIQ_A3SS_A5SS", "parse_MAJIQ_AF_AL",
     "parse_MAJIQ_RI", "parse_MAJIQ_MX"}

\* PARSER_FUNCTIONS['MAJIQ'] of registry.py
MajiqParserOf(event_type) ==
    CASE event_type = "SE" -> "parse_MAJIQ_SE"
      [] event_type \in {"A3SS", "A5SS"} -> "parse_MAJIQ_A3SS_A5SS"
      [] event_type \in {"AF", "AL"} -> "parse_MAJIQ_AF_AL"
      [] event_type = "RI" -> "parse_MAJIQ_RI"
      [] event_type = "MX" -> "parse_MAJIQ_MX"

\* The try / except of one iteration
MajiqBody(parser, event_type, group) ==
    CASE parser = "parse_MAJIQ_SE" -> parse_MAJIQ_SE_body(group)
      [] parser = "parse_MAJIQ_A3SS_A5SS" -> parse_MAJIQ_A3SS_A5SS_body(group, event_type)
      [] parser = "parse_MAJIQ_AF_AL" -> parse_MAJIQ_AF_AL_body(group, event_type)
      [] parser = "parse_MAJIQ_RI" -> parse_MAJIQ_RI_body(group)
      [] parser = "parse_MAJIQ_MX" -> parse_MAJIQ_MX_body(group)

(***************************************************************************)
(* MAJIQ unit: a table of event_id groups goes through one canonicalizer   *)
(***************************************************************************)
\* Event_id groups in a table
MaxGroups == 2

MJRow(strand, junction_name, junction_coord, spliced_with, spliced_with_coord, reference_exon_coord) ==
    [gene_id |-> GENE_PLAIN, seqid |-> ONE, strand |-> strand,
     junction_name |-> junction_name, junction_coord |-> junction_coord,
     spliced_with |-> spliced_with, spliced_with_coord |-> spliced_with_coord,
     reference_exon_coord |-> reference_exon_coord]

\* A junction_coord whose first part is not a number
BadRange(b) == <<"x">> \o DASH \o IntToStr(b)

\* The rows MAJIQ writes for the k-th event of a file, by event type; the
\* shapes below take rows away from them or spoil a cell
MajiqFullGroup(parser, strand, k) ==
    LET b == 100 * k
    IN CASE parser = "parse_MAJIQ_SE" ->
               <<MJRow(strand, <<"C1_A">>, Range(b, b + 10), <<"A">>,
                       Range(b + 10, b + 20), Range(b - 9, b)),
                 MJRow(strand, <<"C1_C2">>, Range(b, b + 30), <<"C2">>,
                       Range(b + 30, b + 39), Range(b - 9, b))>>
         [] parser = "parse_MAJIQ_A3SS_A5SS" ->
               <<MJRow(strand, <<"Proximal">>, Range(b, b + 10), <<"A">>,
                       Range(b + 10, b + 20), Range(b - 9, b)),
                 MJRow(strand, <<"Distal">>, Range(b, b + 15), <<"A">>,
                       Range(b + 15, b + 20), Range(b - 9, b))>>
         [] parser = "parse_MAJIQ_AF_AL" ->
               <<MJRow(strand, <<"Proximal">>, Range(b + 15, b + 30), <<"A">>,
                       Range(b + 10, b + 15), Range(b + 30, b + 39)),
                 MJRow(strand, <<"Distal">>, Range(b + 5, b + 30), <<"A">>,
                       Range(b, b + 5), Range(b + 30, b + 39))>>
         [] parser = "parse_MAJIQ_RI" ->
               <<MJRow(strand, <<"C1_C2_spliced">>, Range(b + 10, b + 20), <<"C2">>,
                       Range(b + 20, b + 30), Range(b, b + 10)),
                 MJRow(strand, <<"C1_C2_intron">>, Range(b + 11, b + 19), <<"C2">>,
                       Range(b + 20, b + 30), Range(b, b + 10))>>
         [] parser = "parse_MAJIQ_MX" ->
               <<MJRow(strand, <<"C1_A1">>, Range(b, b + 10), <<"A1">>,
                       Range(b + 10, b + 15), Range(b - 9, b)),
                 MJRow(strand, <<"C2_A2">>, Range(b + 25, b + 30), <<"A2">>,
                       Range(b + 20, b + 25), Range(b + 30, b + 39))>>

MajiqShapes(parser) ==
    {"full", "first row only", "second row only", "bad coordinate"}
    \cup (IF parser = "parse_MAJIQ_RI"
          THEN {"spliced_with C1", "first row only, spliced_with empty",
                "spliced_with empty"}
          ELSE {})

\* The RI rows as MAJIQ names them when the reference exon is C2
RI_from_C2(row) ==
    [row EXCEPT !.spliced_with = <<"C1">>,
                !.junction_name = IF row.junction_name = <<"C1_C2_intron">>
                                  THEN <<"C2_C1_intron">> ELSE <<"C2_C1_spliced">>]

MajiqGroup(parser, shape, strand, k) ==
    LET full == MajiqFullGroup(parser, strand, k)
        empty_sw(row) == [row EXCEPT !.spliced_with = NA]
    IN CASE shape = "full" -> full
         [] shape = "first row only" -> <<full[1]>>
         [] shape = "second row only" -> <<full[2]>>
         [] shape = "bad coordinate" ->
               <<full[1], [full[2] EXCEPT !.junction_coord = BadRange(100 * k)]>>
         [] shape = "spliced_with C1" -> <<RI_from_C2(full[1]), RI_from_C2(full[2])>>
         [] shape = "first row only, spliced_with empty" -> <<empty_sw(full[1])>>
         [] shape = "spliced_with empty" -> <<empty_sw(full[1]), empty_sw(full[2])>>

\* The calls: each parser with the event types the registry gives it, and
\* the two-type parsers also called directly with another event type
MajiqCalls ==
    {[parser |-> MajiqParserOf(ev), event_type |-> ev] : ev \in MajiqEventTypes}
    \cup {[parser |-> "parse_MAJIQ_A3SS_A5SS", event_type |-> "SE"],
          [parser |-> "parse_MAJIQ_AF_AL", event_type |-> "SE"]}

Maj_Init ==
    /\ \E call \in MajiqCalls : \E count \in 0..MaxGroups :
          \E shapes \in [1..count -> MajiqShapes(call.parser)] :
              \E strand \in {<<"+">>, <<"-">>} :
                  majiq_in = [parser |-> call.parser, event_type |-> call.event_type,
                              groups |-> [k \in 1..count |->
                                  MajiqGroup(call.parser, shapes[k], strand, k)]]
    /\ majiq_loop = [pos |-> 0, uniform_id |-> Unset, records |-> <<>>,
                     status |-> "running"]

\* One iteration of 'for event_id, group in df.groupby("event_id")': the body,
\* then group['uniform_ID'] = uniform_id and records.append(group).  Reading
\* uniform_id when no iteration has bound it raises UnboundLocalError.
parse_MAJIQ_iteration ==
    /\ majiq_loop.status = "running"
    /\ majiq_loop.pos < Len(majiq_in.groups)
    /\ LET group == majiq_in.groups[majiq_loop.pos + 1]
           out == MajiqBody(majiq_in.parser, majiq_in.event_type, group)
           bound == IF out.kind = "unassigned" THEN majiq_loop.uniform_id ELSE out.id
       IN majiq_loop' =
             IF out.kind = "TypeError"
             THEN [majiq_loop EXCEPT !.status = "TypeError"]
             ELSE IF bound = Unset
             THEN [majiq_loop EXCEPT !.status = "UnboundLocalError"]
             ELSE [pos |-> majiq_loop.pos + 1, uniform_id |-> bound,
                   records |-> Append(majiq_loop.records,
                                      [rows |-> group, uniform_ID |-> bound]),
                   status |-> "running"]
    /\ UNCHANGED majiq_in

\* return pd.concat(records, ignore_index=True), which raises ValueError when
\* there is no group
parse_MAJIQ_return ==
    /\ majiq_loop.status = "running"
    /\ majiq_loop.pos = Len(majiq_in.groups)
    /\ majiq_loop' = [majiq_loop EXCEPT !.status =
                         IF Len(majiq_loop.records) = 0 THEN "ValueError"
                         ELSE "returned"]
    /\ UNCHANGED majiq_in

(***************************************************************************)
(* Integration run: the tools and event types integration_analysis loads,  *)
(* the errors load_files raises and the output files written.  A tool name *)
(* is text; an event type is one of the argparse choices; present holds    *)
(* the (tool, event type) pairs whose {tool}.{event}.uid.txt file exists.  *)
(***************************************************************************)
\* 'sub' in s
Contains(s, sub) ==
    \E i \in 1..(Len(s) - Len(sub) + 1) : SubSeq(s, i, i + Len(sub) - 1) = sub

TXT_suppa2 == <<"s","u","p","p","a","2">>
TXT_majiq == <<"m","a","j","i","q">>
TXT_rmats == <<"r","m","a","t","s">>
TXT_psisigma == <<"p","s","i","-","s","i","g","m","a">>

AllEventTypes == {"SE", "A3SS", "A5SS", "AF", "AL", "RI", "MX"}

\* load_files lines 10-16: the requested event types the tool supports
support_event(event_list, software) ==
    LET software_lower == LowerStr(software)
    IN IF Contains(software_lower, TXT_suppa2) \/ Contains(software_lower, TXT_majiq)
       THEN [status |-> "ok",
             events |-> event_list \cap {"SE", "A3SS", "A5SS", "AF", "AL", "RI", "MX"}]
       ELSE IF Contains(software_lower, TXT_rmats)
                  \/ Contains(software_lower, TXT_psisigma)
       THEN [status |-> "ok",
             events |-> event_list \cap {"SE", "A3SS", "A5SS", "RI", "MX"}]
       ELSE [status |-> "ValueError", events |-> {}]

NoMessage == [text |-> "", name |-> NA]

\* load_files: the event types whose table is in dse_list when pd.concat is
\* reached; pd.concat of an empty list raises ValueError
load_files(event_list, software, present) ==
    LET sup == support_event(event_list, software)
        dse_list == {ev \in sup.events : <<software, ev>> \in present}
    IN IF sup.status # "ok"
       THEN [status |-> "ValueError",
             message |-> [text |-> "Unsupported software: ", name |-> software],
             events |-> {}]
       ELSE IF dse_list = {}
       THEN [status |-> "ValueError",
             message |-> [text |-> "No objects to concatenate", name |-> NA],
             events |-> {}]
       ELSE [status |-> "ok", message |-> NoMessage, events |-> dse_list]

\* Tools in a software list
MaxTools == 2

TXT_rMATS == <<"r","M","A","T","S">>
TXT_MAJIQ == <<"M","A","J","I","Q">>
TXT_Whippet == <<"W","h","i","p","p","e","t">>

LoadNames == {TXT_rMATS, TXT_MAJIQ, TXT_Whippet}

LoadEvents == {"SE", "AF"}

Ld_Init ==
    /\ \E k \in 1..MaxTools : \E sl \in [1..k -> LoadNames] :
          \E el \in (SUBSET LoadEvents) \ {{}} :
              \E present \in SUBSET ({TXT_rMATS, TXT_MAJIQ} \X LoadEvents) :
                  /\ \A i, j \in 1..k : sl[i] = sl[j] => i = j
                  /\ load_in = [software_list |-> sl, event_list |-> el,
                                present |-> present]
    /\ load_st = [dfs |-> <<>>, status |-> "running", message |-> NoMessage,
                  written |-> 0]

\* One iteration of 'for sw in software_list' (integration_dse.py lines 41-45)
Call_load_files ==
    /\ load_st.status = "running"
    /\ Len(load_st.dfs) < Len(load_in.software_list)
    /\ LET sw == load_in.software_list[Len(load_st.dfs) + 1]
           loaded == load_files(load_in.event_list, sw, load_in.present)
       IN load_st' =
             IF loaded.status = "ok"
             THEN [load_st EXCEPT !.dfs = Append(load_st.dfs, loaded.events)]
             ELSE [load_st EXCEPT !.status = loaded.status,
                                  !.message = loaded.message]
    /\ UNCHANGED load_in

\* The merge and one iteration of the threshold loop (lines 47-58)
Write_output ==
    /\ load_st.status = "running"
    /\ Len(load_st.dfs) = Len(load_in.software_list)
    /\ load_st.written < Len(load_in.software_list)
    /\ load_st' = [load_st EXCEPT
                     !.written = load_st.written + 1,
                     !.status = IF load_st.written + 1 = Len(load_in.software_list)
                                THEN "done" ELSE "running"]
    /\ UNCHANGED load_in

(***************************************************************************)
(* Benchmarking run: the (file type, event type, tool) units unify_results *)
(* goes through and the input file load_file needs for each.  present      *)
(* holds the (tool directory, event type) pairs whose input file exists;   *)
(* SUPPA2 and PSI-Sigma have one file for all event types ("*").           *)
(***************************************************************************)
TXT_SUPPA2 == <<"S","U","P","P","A","2">>
TXT_PSISigma == <<"P","S","I","-","S","i","g","m","a">>

\* registry.py lines 77-84
get_support_software_list(event_type) ==
    IF event_type \in {"SE", "A3SS", "A5SS", "MX", "RI"}
    THEN <<TXT_SUPPA2, TXT_rMATS, TXT_PSISigma, TXT_MAJIQ>>
    ELSE IF event_type \in {"AF", "AL"}
    THEN <<TXT_SUPPA2, TXT_MAJIQ>>
    ELSE <<>>

\* ASB.py line 48
query_software(sw_list, ev) ==
    LET support_software == get_support_software_list(ev)
    IN SelectSeq(sw_list, LAMBDA sw2 :
           \E k \in 1..Len(support_software) :
               Contains(LowerStr(sw2), LowerStr(support_software[k])))

\* ASB.py lines 51-57: some key of PARSERS is found in the name, case ignored
HasParser(sw) ==
    \E key \in {TXT_SUPPA2, TXT_rMATS, TXT_MAJIQ, TXT_PSISigma} :
        Contains(LowerStr(sw), LowerStr(key))

\* file_loader.py: the outcome of load_file for one tool and event type
load_file(present, event_type, software) ==
    LET software_lower == LowerStr(software)
        found(dir, ev) == IF <<dir, ev>> \in present THEN "ok"
                          ELSE "FileNotFoundError"
    IN IF Contains(software_lower, TXT_suppa2) THEN found("SUPPA2", "*")
       ELSE IF Contains(software_lower, TXT_rmats) THEN found("rMATS", event_type)
       ELSE IF Contains(software_lower, TXT_psisigma) THEN found("PSI-Sigma", "*")
       ELSE IF Contains(software_lower, TXT_majiq)
       THEN IF event_type \notin {"SE", "A3SS", "A5SS", "AF", "AL", "RI", "MX"}
            THEN "ValueError"
            ELSE found("MAJIQ", event_type)
       ELSE "ValueError"

FileTypes == <<"exclusion_novel", "inclusion_novel">>

\* The units in the order of the three nested loops (ASB.py lines 29, 36, 50)
UnitsOfEvent(sw_list, file_type, ev) ==
    IF ev \notin {"SE", "A3SS", "A5SS", "MX", "RI", "AF", "AL"} THEN <<>>
    ELSE LET q == SelectSeq(query_software(sw_list, ev), HasParser)
         IN [k \in 1..Len(q) |-> [file_type |-> file_type, ev |-> ev, sw |-> q[k]]]

UnitsOfFileType(sw_list, event_list, file_type) ==
    Concat([e \in 1..Len(event_list) |->
               UnitsOfEvent(sw_list, file_type, event_list[e])])

Units(sw_list, event_list) ==
    Concat([f \in 1..Len(FileTypes) |->
               UnitsOfFileType(sw_list, event_list, FileTypes[f])])

(***************************************************************************)
(* Novelty filter: filter_rmats_novel_events                               *)
(*                                                                         *)
(* A cell is [kind, text]: kind "int" for a number read_csv parsed, "str"  *)
(* for text, "nan" for a missing value; text is what astype(str) gives.    *)
(* A row is [ID, cells] with cells a function of the column names.  A      *)
(* novel-event file is NoFile or [cols, rows], read with dtype=str.        *)
(***************************************************************************)
\* filter_novel_rmats.py lines 20-34
event_key_columns(ev) ==
    CASE ev = "SE" ->
            <<"GeneID", "chr", "strand", "exonStart_0base", "exonEnd",
              "upstreamES", "upstreamEE", "downstreamES", "downstreamEE">>
      [] ev \in {"A3SS", "A5SS"} ->
            <<"GeneID", "chr", "strand", "longExonStart_0base", "longExonEnd",
              "flankingES", "flankingEE", "shortES", "shortEE">>
      [] ev = "RI" ->
            <<"GeneID", "chr", "strand", "riExonStart_0base", "riExonEnd",
              "upstreamES", "upstreamEE", "downstreamES", "downstreamEE">>
      [] ev = "MX" ->
            <<"GeneID", "chr", "strand", "1stExonStart_0base", "1stExonEnd",
              "2ndExonStart_0base", "2ndExonEnd", "upstreamES", "upstreamEE",
              "downstreamES", "downstreamEE">>
      [] OTHER -> <<>>

NoFile == [cols |-> {}, rows |-> <<>>, exists |-> FALSE]

StrCell(text) == [kind |-> "str", text |-> text]

IntCell(v) == [kind |-> "int", text |-> IntToStr(v)]

NaNCell == [kind |-> "nan", text |-> <<"n","a","n">>]

\* Series.astype(str) on one cell
astype_str(cell) == [kind |-> "str", text |-> cell.text]

SeqToSet(q) == {q[i] : i \in 1..Len(q)}

\* Lines 45-52: the files that exist, in the order splice, junction
dfs_to_remove(splice_file, junction_file) ==
    SelectSeq(<<splice_file, junction_file>>, LAMBDA f : f.exists)

\* Line 58: pd.concat(dfs_to_remove, ignore_index=True); a column one file
\* lacks is missing in its rows
pd_concat(parts) ==
    LET cols == UNION {parts[k].cols : k \in 1..Len(parts)}
        widen(f) == [i \in 1..Len(f.rows) |->
                        [c \in cols |-> IF c \in f.cols THEN f.rows[i][c] ELSE NaNCell]]
    IN [cols |-> cols, rows |-> Concat([k \in 1..Len(parts) |-> widen(parts[k])])]

\* Line 59
common_keys(key_columns, df_columns, df_remove) ==
    SelectSeq(key_columns, LAMBDA col : col \in df_columns /\ col \in df_remove.cols)

\* Lines 65-71: the left merge with indicator on the keys as text, and the
\* rows that are left_only; the key columns of df were replaced by their text
merge_left_only(df, df_remove, keys) ==
    LET K == SeqToSet(keys)
        as_text(cells) == [c \in DOMAIN cells |->
                              IF c \in K THEN astype_str(cells[c]) ELSE cells[c]]
        both(row) == \E j \in 1..Len(df_remove.rows) :
                        \A c \in K : astype_str(row.cells[c]) = astype_str(df_remove.rows[j][c])
        converted == [i \in 1..Len(df) |-> [df[i] EXCEPT !.cells = as_text(df[i].cells)]]
    IN SelectSeq(converted, LAMBDA row : ~both(row))

\* The same without the guard of lines 54-55
filter_rmats_unguarded(df, ev, splice_file, junction_file) ==
    LET key_columns == event_key_columns(ev)
        parts == dfs_to_remove(splice_file, junction_file)
    IN IF Len(key_columns) = 0 THEN Ok(df)
       ELSE IF Len(parts) = 0 THEN [status |-> "ValueError", table |-> <<>>]
       ELSE Ok(merge_left_only(df, pd_concat(parts),
                   common_keys(key_columns, SeqToSet(key_columns), pd_concat(parts))))

\* The rMATS branch (lines 18-71); df has the columns of the rMATS ev file
filter_rmats(df, ev, splice_file, junction_file) ==
    LET key_columns == event_key_columns(ev)
        parts == dfs_to_remove(splice_file, junction_file)
        df_remove == pd_concat(parts)
        keys == common_keys(key_columns, SeqToSet(key_columns), df_remove)
    IN IF Len(key_columns) = 0 THEN Ok(df)
       ELSE IF Len(parts) = 0 THEN Ok(df)
       ELSE IF Len(keys) = 0 THEN Ok(df)
       ELSE Ok(merge_left_only(df, df_remove, keys))

\* filter_rmats_novel_events (lines 4-86)
filter_rmats_novel_events(df, software, ev, splice_file, junction_file) ==
    LET software_lower == LowerStr(software)
    IN IF Contains(software_lower, TXT_rmats)
       THEN filter_rmats(df, ev, splice_file, junction_file)
       ELSE IF Contains(software_lower, TXT_majiq)
       THEN LET event_ids_to_remove ==
                    {df[i].event_id : i \in {j \in 1..Len(df) : df[j].denovo = TRUE}}
            IN Ok(SelectSeq(df, LAMBDA row : row.event_id \notin event_ids_to_remove))
       ELSE IF Contains(software_lower, TXT_psisigma)
       THEN Ok(SelectSeq(df, LAMBDA row : row.type # "novel"))
       ELSE IF Contains(software_lower, TXT_suppa2)
       THEN Ok(df)
       ELSE [status |-> "UnboundLocalError", table |-> <<>>]

(***************************************************************************)
(* Novelty filter unit: one canonicalized table and its novel-event data   *)
(***************************************************************************)
\* Rows of the table handed to the filter
MaxNovelRows == 2

\* The value in coordinate column j of an event: variant 0 is an event,
\* variant 1 the same event but for its last coordinate, variant 2 the same
\* but for its first coordinate
NovelCoord(key_columns, j, variant) ==
    10 * j + (IF (variant = 1 /\ j = Len(key_columns)) \/ (variant = 2 /\ j = 4)
              THEN 1 ELSE 0)

\* The cell of column key_columns[j] as read_csv gives it for the event file
\* (as_text FALSE) and as read_csv(dtype=str) gives it for a novel-event file
NovelCell(key_columns, j, variant, as_text) ==
    CASE j = 1 -> StrCell(<<"G", "1">>)
      [] j = 2 -> StrCell(<<"1">>)
      [] j = 3 -> StrCell(<<"+">>)
      [] OTHER -> IF as_text
                  THEN StrCell(IntToStr(NovelCoord(key_columns, j, variant)))
                  ELSE IntCell(NovelCoord(key_columns, j, variant))

ColumnIndex(key_columns, c) == CHOOSE j \in 1..Len(key_columns) : key_columns[j] = c

rMATS_novel_df_row(ev, variant, k) ==
    LET key_columns == event_key_columns("SE")
    IN [ID |-> k,
        cells |-> [c \in SeqToSet(key_columns) |->
                      NovelCell(key_columns, ColumnIndex(key_columns, c), variant, FALSE)]]

\* The column sets of a novel-event file: the whole key, the key without its
\* last column, and no key column at all
NovelColumnSets(key_columns) ==
    {SeqToSet(key_columns) \cup {"ID"},
     SeqToSet(SubSeq(key_columns, 1, Len(key_columns) - 1)) \cup {"ID"},
     {"ID"}}

NovelFileRow(key_columns, cols, variant) ==
    [c \in cols |->
        IF c = "ID" THEN StrCell(<<"7">>)
        ELSE NovelCell(key_columns, ColumnIndex(key_columns, c), variant, TRUE)]

NovelFiles ==
    LET key_columns == event_key_columns("SE")
        with(cols) ==
            {[cols |-> cols, rows |-> rows, exists |-> TRUE] :
                rows \in {<<>>} \cup {<<NovelFileRow(key_columns, cols, v)>> : v \in 0..2}}
    IN {NoFile} \cup UNION {with(cols) : cols \in NovelColumnSets(key_columns)}

NovelDfRows(software, ev, k) ==
    CASE software = TXT_rMATS -> {rMATS_novel_df_row(ev, v, k) : v \in 0..2}
      [] software = TXT_MAJIQ ->
            {[ID |-> k, event_id |-> e, denovo |-> d] : e \in 1..2, d \in BOOLEAN}
      [] software = TXT_PSISigma -> {[ID |-> k, type |-> t] : t \in {"novel", "-"}}
      [] software = TXT_SUPPA2 -> {[ID |-> k]}

NovelEvents(software) == IF software = TXT_rMATS THEN {"SE", "AF"} ELSE {"SE"}

NovelNotRun == [status |-> "unset", table |-> <<>>]

Nov_Init ==
    /\ \E software \in {TXT_rMATS, TXT_MAJIQ, TXT_PSISigma, TXT_SUPPA2} :
          \E ev \in NovelEvents(software) : \E count \in 0..MaxNovelRows :
              \E df \in [1..count -> UNION {NovelDfRows(software, ev, k) : k \in 1..count}] :
                  \E splice_file, junction_file \in
                        (IF software = TXT_rMATS THEN NovelFiles ELSE {NoFile}) :
                      /\ \A k \in 1..count : df[k].ID = k
                      /\ novel_in = [software |-> software, event |-> ev, df |-> df,
                                     splice_file |-> splice_file,
                                     junction_file |-> junction_file]
    /\ novel_out = NovelNotRun

\* ASB.py line 67
Run_filter_novel_events ==
    /\ novel_out.status = "unset"
    /\ novel_out' = filter_rmats_novel_events(novel_in.df, novel_in.software,
                        novel_in.event, novel_in.splice_file, novel_in.junction_file)
    /\ UNCHANGED novel_in

(***************************************************************************)
(* Benchmarking run: the loops of unify_results over tables and files      *)
(*                                                                         *)
(* A table is [columns, rows].  The run's table of a unit has the rows     *)
(* RunRowIDs; the rows in unify_in.novel are the novel events, marked the   *)
(* way the tool marks them (rMATS: a row of fromGTF.novelJunction with the *)
(* same key; MAJIQ: denovo).                                               *)
(***************************************************************************)
UnifyEventLists == {<<"SE">>, <<"AF">>, <<"SE", "AF">>, <<"AF", "SE">>}

RunRowIDs == {1, 2}

TXT_out == <<"o","u","t">>
TXT_s1 == <<"s","1">>
TXT_uid_txt == <<".","u","i","d",".","t","x","t">>

\* An event type name as text
EventText(ev) ==
    CASE ev = "SE" -> <<"S","E">>
      [] ev = "AF" -> <<"A","F">>
      [] ev = "AL" -> <<"A","L">>
      [] ev = "MX" -> <<"M","X">>
      [] ev = "RI" -> <<"R","I">>
      [] ev = "A3SS" -> <<"A","3","S","S">>
      [] ev = "A5SS" -> <<"A","5","S","S">>

\* os.path.join(a, b) on POSIX
os_path_join(a, b) ==
    IF Len(b) > 0 /\ b[1] = "/" THEN b
    ELSE IF Len(a) = 0 \/ a[Len(a)] = "/" THEN a \o b
    ELSE a \o <<"/">> \o b

\* file_io.py lines 29-32 with the event type left out of the file name
output_file_no_event(output_dir, sample_name, software, event_type) ==
    LET sub_dir == os_path_join(os_path_join(output_dir, software), sample_name)
    IN os_path_join(sub_dir, software \o TXT_uid_txt)

\* file_io.py lines 29-32: the path save_dataframe writes
output_file(output_dir, sample_name, software, event_type) ==
    LET sub_dir == os_path_join(os_path_join(output_dir, software), sample_name)
    IN os_path_join(sub_dir, software \o <<".">> \o EventText(event_type) \o TXT_uid_txt)

\* The columns of the tool's result file as load_file returns it
RawColumns(software) ==
    IF Contains(LowerStr(software), TXT_rmats)
    THEN SeqToSet(event_key_columns("SE")) \cup {"ID", "FDR", "IncLevelDifference"}
    ELSE {"event_id", "denovo", "junction_name", "probability_changing", "median_dpsi"}

\* The rows of the unit's table after load_file
RunRows(software, ev, novel) ==
    IF Contains(LowerStr(software), TXT_rmats)
    THEN [k \in RunRowIDs |-> rMATS_novel_df_row(ev, IF k \in novel THEN 0 ELSE 1, k)]
    ELSE [k \in RunRowIDs |-> [ID |-> k, event_id |-> k, denovo |-> (k \in novel)]]

\* fromGTF.novelJunction.{event}.txt of the run: the key of the novel events
RunJunctionFile(novel) ==
    LET key_columns == event_key_columns("SE")
        cols == SeqToSet(key_columns) \cup {"ID"}
    IN IF novel = {} THEN NoFile
       ELSE [cols |-> cols, rows |-> <<NovelFileRow(key_columns, cols, 0)>>, exists |-> TRUE]

\* registry.py lines 47-55: the parser returns the table with uniform_ID added
parser_sw(df) == [df EXCEPT !.columns = df.columns \cup {"uniform_ID"}]

\* ASB.py line 67
filter_novel_events(df, sw, ev, novel) ==
    [df EXCEPT !.rows =
        filter_rmats_novel_events(df.rows, sw, ev, NoFile, RunJunctionFile(novel)).table]

\* The same with the filter applied in both passes
novel_pass_both(df, file_type, sw, ev, novel) ==
    filter_novel_events(df, sw, ev, novel)

\* ASB.py lines 66-67: the filter is applied in the exclusion_novel pass only
novel_pass(df, file_type, sw, ev, novel) ==
    IF file_type = "exclusion_novel"
    THEN filter_novel_events(df, sw, ev, novel)
    ELSE df

\* dse_parser.py lines 7-82: the table comes back with the column class
annotate_class_column(df) == [df EXCEPT !.columns = df.columns \cup {"class"}]

\* file_io.py lines 5-33: the file written by save_dataframe
save_dataframe(df, output_dir, sample_name, software, event_type) ==
    [path |-> output_file(output_dir, sample_name, software, event_type),
     software |-> software, event_type |-> event_type,
     columns |-> df.columns, rows |-> df.rows]

\* The calls of one iteration of the software loop, in program order
\* (ASB.py lines 59-73)
UnitCalls(file_type) ==
    <<"load_file", "parser_sw">>
      \o (IF file_type = "exclusion_novel" THEN <<"filter_novel_events">> ELSE <<>>)
      \o (IF file_type = "inclusion_novel" THEN <<"save_dataframe">> ELSE <<>>)
      \o <<"ase_extract", "annotate_dse_class">>

\* unify_st.units holds the iterations the three nested loops will make
Uni_Init ==
    /\ \E k \in 1..MaxTools : \E sl \in [1..k -> LoadNames] :
          \E el \in UnifyEventLists :
              \E present \in SUBSET ({"rMATS", "MAJIQ"} \X {"SE", "AF"}) :
                  \E novel \in SUBSET RunRowIDs :
                      /\ \A i, j \in 1..k : sl[i] = sl[j] => i = j
                      /\ unify_in = [software_list |-> sl, event_list |-> el,
                                     present |-> present, novel |-> novel,
                                     output_dir |-> TXT_out, sample_name |-> TXT_s1]
    /\ unify_st = [pos |-> 0, processed |-> <<>>, status |-> "running",
                   calls |-> <<>>, written |-> <<>>, df |-> <<>>,
                   units |-> Units(unify_in.software_list, unify_in.event_list)]

\* One iteration of 'for sw in query_software' (ASB.py lines 50-85): load_file
\* is called outside any try, so what it raises ends unify_results
Process_unit ==
    /\ unify_st.status = "running"
    /\ unify_st.pos < Len(unify_st.units)
    /\ LET unit == unify_st.units[unify_st.pos + 1]
           loaded == load_file(unify_in.present, unit.ev, unit.sw)
           raw == [columns |-> RawColumns(unit.sw),
                   rows |-> RunRows(unit.sw, unit.ev, unify_in.novel)]
           parsed == parser_sw(raw)
           df == novel_pass(parsed, unit.file_type, unit.sw, unit.ev, unify_in.novel)
           saved == IF unit.file_type = "inclusion_novel"
                    THEN <<save_dataframe(df, unify_in.output_dir, unify_in.sample_name,
                                          unit.sw, unit.ev)>>
                    ELSE <<>>
       IN unify_st' =
             IF loaded = "ok"
             THEN [unify_st EXCEPT !.pos = unify_st.pos + 1,
                                   !.processed = Append(unify_st.processed, unit),
                                   !.calls = Append(unify_st.calls,
                                                [unit |-> unit, names |-> UnitCalls(unit.file_type)]),
                                   !.written = unify_st.written \o saved,
                                   !.df = <<annotate_class_column(df)>>]
             ELSE [unify_st EXCEPT !.status = loaded,
                                   !.calls = Append(unify_st.calls,
                                                [unit |-> unit, names |-> <<"load_file">>])]
    /\ UNCHANGED unify_in

\* The loops are exhausted (ASB.py lines 89-96 follow for each file type)
Finish_unify ==
    /\ unify_st.status = "running"
    /\ unify_st.pos = Len(unify_st.units)
    /\ unify_st' = [unify_st EXCEPT !.status = "done"]
    /\ UNCHANGED unify_in

(***************************************************************************)
(* PSI-Sigma canonicalizer: the transcript join of parse_psi_sigma and the *)
(* MX parser                                                               *)
(***************************************************************************)
MaxPsiRows == 2

TXT_ENST == <<"E","N","S","T","0","0","0","0","0","4","5","6","3","2","8">>
TXT_Ex == <<"E","x">>
TXT_TSS == <<"T","S","S">>
DOT == "."

\* The 'Reference Transcript' values of the model: an accession, with a
\* version, and behind the prefix PSI-Sigma writes
ReferenceTranscripts ==
    {TXT_ENST, TXT_ENST \o <<DOT, "2">>,
     TXT_Ex \o <<DOT>> \o TXT_ENST, TXT_Ex \o <<DOT>> \o TXT_ENST \o <<DOT, "2">>,
     TXT_TSS \o <<DOT>> \o TXT_ENST}

\* The rows of extract_gene_transcript_strand(gtf_path), in file order
GtfRows ==
    <<[gene_id |-> "G1", transcript_id |-> TXT_ENST, strand |-> "+"],
      [gene_id |-> "G2", transcript_id |-> TXT_ENST \o <<DOT, "2">>, strand |-> "-"],
      [gene_id |-> "G3", transcript_id |-> <<"2">>, strand |-> "+"]>>

\* registry.py line 60
psisigma_type(reference_transcript) ==
    IF Split(reference_transcript, DOT)[1] = TXT_Ex THEN "novel" ELSE "-"

\* registry.py line 61: .str.split('.').str[-1]
transcript_key(reference_transcript) ==
    LET parts == Split(reference_transcript, DOT)
    IN parts[Len(parts)]

\* registry.py line 63: df.merge(gtf_df, on="transcript_id", how="left"); a row
\* without a match keeps missing gene_id and strand
merge_gtf(df, gtf_df) ==
    LET hits(r) == SelectSeq(gtf_df, LAMBDA g : g.transcript_id = r.transcript_id)
        joined(r) ==
            IF Len(hits(r)) = 0
            THEN <<[r EXCEPT !.gene_id = NaN, !.strand = NaN]>>
            ELSE [k \in 1..Len(hits(r)) |->
                     [r EXCEPT !.gene_id = hits(r)[k].gene_id,
                               !.strand = hits(r)[k].strand]]
    IN Concat([i \in 1..Len(df) |-> joined(df[i])])

\* registry.py lines 59-63
parse_psi_sigma_join(df, gtf_df) ==
    merge_gtf([i \in 1..Len(df) |->
                  [src |-> i,
                   type |-> psisigma_type(df[i]),
                   transcript_id |-> transcript_key(df[i]),
                   gene_id |-> NaN, strand |-> NaN]],
              gtf_df)

PsiNotRun == [status |-> "unset", table |-> <<>>]

Ps_Init_Join ==
    /\ \E k \in 1..MaxPsiRows : \E df \in [1..k -> ReferenceTranscripts] :
          \E keep \in SUBSET (1..Len(GtfRows)) :
              psisigma_in = [df |-> df,
                             gtf_df |-> SelectSeq(GtfRows, LAMBDA g :
                                           \E j \in keep : GtfRows[j] = g)]
    /\ psisigma_out = PsiNotRun

Run_parse_psi_sigma ==
    /\ psisigma_out = PsiNotRun
    /\ psisigma_out' = Ok(parse_psi_sigma_join(psisigma_in.df, psisigma_in.gtf_df))
    /\ UNCHANGED psisigma_in

\* parse_psisigma_MX (psisigma_parser.py lines 82-133).  A row is [region,
\* exon, gene_id, strand] with region the 'Event Region' text and exon the
\* 'Target Exon' text; the rows are those typed MXS.
MaxMXRows == 3

RegionText(chrom, a, b) == chrom \o COLON \o IntToStr(a) \o DASH \o IntToStr(b)

MXRegions == <<RegionText(<<"1">>, 10, 90), RegionText(<<"1">>, 10, 95)>>

MXExons ==
    {RegionText(<<"1">>, 20, 30), RegionText(<<"1">>, 40, 50),
     RegionText(<<"1">>, 60, 70), RegionText(<<"1">>, 25, 45)}

\* Line 87: the rows of a region reported more than once
MX_repeated(df) ==
    Positions(Len(df), LAMBDA i :
        Cardinality({j \in 1..Len(df) : df[j].region = df[i].region}) > 1)

ExonStart(df, i) == IntPart(Split(df[i].exon, ":")[2], 1)

ExonEnd(df, i) == IntPart(Split(df[i].exon, ":")[2], 2)

\* Line 108: sorted(exon_info, key=start), a stable sort of the positions
RECURSIVE MX_sorted(_, _)
MX_sorted(df, idx) ==
    IF Len(idx) = 0 THEN <<>>
    ELSE LET k == CHOOSE k \in 1..Len(idx) :
                      /\ \A j \in 1..Len(idx) : ExonStart(df, idx[k]) <= ExonStart(df, idx[j])
                      /\ \A j \in 1..(k - 1) : ExonStart(df, idx[j]) > ExonStart(df, idx[k])
         IN <<idx[k]>> \o MX_sorted(df, SubSeq(idx, 1, k - 1) \o SubSeq(idx, k + 1, Len(idx)))

\* itertools.combinations(exon_info, 2), in its order
Combinations2(q) ==
    Concat([a \in 1..Len(q) |-> [b \in 1..(Len(q) - a) |-> <<q[a], q[a + b]>>]])

\* Lines 112-130 for one pair: nothing when the exons overlap, else the two
\* rows of the pair with the identifier of the pairing
MX_pair_rows(df, region, pair) ==
    LET s1 == ExonStart(df, pair[1])
        e1 == ExonEnd(df, pair[1])
        s2 == ExonStart(df, pair[2])
        e2 == ExonEnd(df, pair[2])
        chrom == Split(region, ":")[1]
        region_start == IntPart(Split(region, ":")[2], 1)
        region_end == IntPart(Split(region, ":")[2], 2)
        block(s, e) == IntToStr(region_start - 1) \o DASH \o IntToStr(s) \o COLON
                          \o IntToStr(e) \o DASH \o IntToStr(region_end + 1)
        left == IF s1 < s2 THEN block(s1, e1) ELSE block(s2, e2)
        right == IF s1 < s2 THEN block(s2, e2) ELSE block(s1, e1)
        uniform_id == df[pair[1]].gene_id \o <<";","M","X",":">> \o chrom \o COLON
                         \o left \o COLON \o right \o COLON \o df[pair[1]].strand
    IN IF e1 < s2 \/ e2 < s1
       THEN <<[src |-> pair[1], region |-> region, uniform_ID |-> uniform_id],
              [src |-> pair[2], region |-> region, uniform_ID |-> uniform_id]>>
       ELSE <<>>

\* Lines 93-130 for the group of one Event Region
MX_group_rows(df, kept, region) ==
    LET grp == SelectSeq(kept, LAMBDA i : df[i].region = region)
        pairs == Combinations2(MX_sorted(df, grp))
    IN Concat([k \in 1..Len(pairs) |-> MX_pair_rows(df, region, pairs[k])])

\* The whole parser: groupby visits the regions in key order, and
\* pd.concat raises ValueError when no pair was kept (line 132)
parse_psisigma_MX(df) ==
    LET kept == MX_repeated(df)
        merged_dfs == Concat([r \in 1..Len(MXRegions) |->
                                 MX_group_rows(df, kept, MXRegions[r])])
    IN IF Len(merged_dfs) = 0 THEN Raised("ValueError") ELSE Ok(merged_dfs)

Ps_Init_MX ==
    /\ \E k \in 1..MaxMXRows :
          \E df \in [1..k -> [region : {MXRegions[r] : r \in 1..Len(MXRegions)},
                              exon : MXExons, gene_id : {<<"G","1">>}, strand : {<<"+">>}]] :
              psisigma_in = [df |-> df]
    /\ psisigma_out = PsiNotRun

Run_parse_psisigma_MX ==
    /\ psisigma_out = PsiNotRun
    /\ psisigma_out' = parse_psisigma_MX(psisigma_in.df)
    /\ UNCHANGED psisigma_in

(***************************************************************************)
(* Properties of the SE unit                                               *)
(***************************************************************************)
AllToolsRan == \A t \in Tools3 : uniform_ID[t] # Unset

\* C1: for one biological SE event, given with the same gene field and the
\* same chromosome name to rMATS, MAJIQ and PSI-Sigma, the three parsers emit
\* the identical uniform_ID, whatever the gene field and chromosome spelling.
C1_SameIDAcrossTools ==
    AllToolsRan =>
        \A t1, t2 \in Tools3 : uniform_ID[t1] = uniform_ID[t2]

\* The identifier the claim states for an rMATS SE row, written from the claim
C2_Expected(row) ==
    LET GENE == StripChar(row.GeneID, QUOTE)
        CHROM == IF Len(row.chr) >= 3
                    /\ Lower(row.chr[1]) = "c" /\ Lower(row.chr[2]) = "h"
                    /\ Lower(row.chr[3]) = "r"
                 THEN SubSeq(row.chr, 4, Len(row.chr)) ELSE row.chr
    IN GENE \o <<";","S","E",":">> \o CHROM \o <<":">>
         \o IntToStr(PyInt(row.upstreamEE)) \o <<"-">>
         \o IntToStr(PyInt(row.exonStart_0base) + 1) \o <<":">>
         \o IntToStr(PyInt(row.exonEnd)) \o <<"-">>
         \o IntToStr(PyInt(row.downstreamES) + 1) \o <<":">> \o row.strand

\* C2: for every rMATS SE row whose four coordinate fields are integers,
\* parse_rMATS_SE returns GENE;SE:CHROM:upstreamEE-(exonStart_0base+1):
\* exonEnd-(downstreamES+1):STRAND with the quotes of the gene and a leading
\* chr of the chromosome removed.
C2_rMATS_SE_Format ==
    uniform_ID["rMATS"] # Unset =>
        uniform_ID["rMATS"] = C2_Expected(rMATS_row(event))

C2_EXAMPLE_ID ==
    <<"E","N","S","G","0","0","0","0","0","0","0","1",";","S","E",":","1",":","1","0","0","-","1","5","0",":","2","0","0","-","2","5","0",":","+">>

\* C2 witness: the example row 100/149/200/249, '+', chr1, "ENSG00000001"
C2_Witness ==
    /\ event = [gene |-> GENE_Q, chrom |-> CHR1,
                coords |-> <<100, 150, 200, 250>>, strand |-> <<"+">>]
    /\ rMATS_row(event).exonStart_0base = <<"1","4","9">>
    /\ rMATS_row(event).downstreamES = <<"2","4","9">>
    /\ uniform_ID["rMATS"] = C2_EXAMPLE_ID

\* The CHROM field of an identifier GENE;TYPE:CHROM:...
ChromField(id) == Split(id, ":")[2]

IsIdentifier(id) == Len(Split(id, ":")) > 2

\* C12: in every identifier a canonicalizer emits, the CHROM field has no
\* leading chr: the input chromosome chr1 appears as 1.
C12_ChromWithoutChr ==
    \A t \in Tools3 :
        (event.chrom = CHR1 /\ IsIdentifier(uniform_ID[t])) =>
            ChromField(uniform_ID[t]) = ONE

(***************************************************************************)
(* Properties of the Integrator                                            *)
(***************************************************************************)
\* The uniform_IDs whose consensus class is DSE in a written table
DSESet(tbl) == {tbl[i].uniform_ID : i \in {j \in 1..Len(tbl) : tbl[j].class = "DSE"}}

\* C3: for thresholds n1 < n2, the consensus-DSE set of the threshold-n2
\* output is a subset of the consensus-DSE set of the threshold-n1 output.
C3_Monotone ==
    \A f1, f2 \in DOMAIN files :
        f1[1] < f2[1] => DSESet(files[f2]) \subseteq DSESet(files[f1])

\* C3 witness: a finished run whose higher threshold keeps some but not all
\* of the events the lower threshold calls DSE
C3_Witness ==
    /\ pc = "done"
    /\ \E f1, f2 \in DOMAIN files :
          /\ f1[1] < f2[1]
          /\ DSESet(files[f2]) # {}
          /\ DSESet(files[f2]) # DSESet(files[f1])

\* The number of per-tool columns of a row whose value is DSE
SupportCount(row) == Cardinality({j \in 1..Len(row.cols) : row.cols[j] = "DSE"})

\* C4: one output per support threshold 1..number of tools; in the
\* threshold-n output a row is DSE exactly when its sum exceeds n-1, and
\* non-DSE otherwise, where sum counts the tool columns equal to DSE after
\* up-regulate and down-regulate were both collapsed to DSE.
C4_Consensus ==
    /\ pc = "done" =>
          DOMAIN files = {<<m, m - 1>> : m \in 1..Len(software_list)}
    /\ pc \in {"write", "done"} =>
          DOMAIN files = {<<m, m - 1>> : m \in 1..n}
    /\ \A f \in DOMAIN files : \A i \in 1..Len(files[f]) :
          LET row == files[f][i]
          IN /\ row.sum = SupportCount(row)
             /\ row.class = IF row.sum > f[1] - 1 THEN "DSE" ELSE "non-DSE"
             /\ \A j \in 1..Len(row.cols) :
                   \/ /\ row.cols[j] = NaN
                      /\ Len(RowsOfKey(dfs[j], row.uniform_ID)) = 0
                   \/ \E k \in 1..Len(dfs[j]) :
                         /\ dfs[j][k].uniform_ID = row.uniform_ID
                         /\ dfs[j][k].class = row.cols[j]
    /\ (pc = "load" /\ Len(dfs) > 0) =>
          LET last == dfs[Len(dfs)]
          IN /\ Len(last) = Len(dse_df)
             /\ \A i \in 1..Len(last) :
                   /\ last[i].uniform_ID = dse_df[i].uniform_ID
                   /\ last[i].class =
                        IF dse_df[i].class \in {"up-regulate", "down-regulate"}
                        THEN "DSE" ELSE "non-DSE"

\* C4 witness: a finished three-tool run with an event supported by exactly
\* two tools: DSE in the threshold-2 output, non-DSE in the threshold-3 output
C4_Witness ==
    /\ pc = "done"
    /\ Len(software_list) = 3
    /\ \E i \in 1..Len(files[<<2, 1>>]) :
          /\ files[<<2, 1>>][i].sum = 2
          /\ files[<<2, 1>>][i].class = "DSE"
          /\ files[<<3, 2>>][i].class = "non-DSE"

\* The tools (positions in software_list) whose table has the event
ToolsWithEvent(u) == {j \in 1..Len(dfs) : Len(RowsOfKey(dfs[j], u)) > 0}

C13_RowOK(row) ==
    /\ \A j \in 1..Len(row.cols) :
          j \notin ToolsWithEvent(row.uniform_ID) => row.cols[j] = NaN
    /\ row.sum = Cardinality({j \in ToolsWithEvent(row.uniform_ID) :
                                 row.cols[j] = "DSE"})

\* C13: in the consensus table, an event absent from a tool's classification
\* table has a missing value in that tool's column (neither non-DSE nor DSE),
\* and the support count counts only tools that have the event.
C13_AbsentIsMissing ==
    /\ \A i \in 1..Len(df_combined) : C13_RowOK(df_combined[i])
    /\ \A f \in DOMAIN files : \A i \in 1..Len(files[f]) : C13_RowOK(files[f][i])

\* C13 witness: a finished three-tool run with an event that one tool calls
\* DSE and another tool does not have
C13_Witness ==
    /\ pc = "done"
    /\ Len(software_list) = 3
    /\ \E i \in 1..Len(files[<<1, 0>>]) :
          LET row == files[<<1, 0>>][i]
          IN /\ ToolsWithEvent(row.uniform_ID) # 1..3
             /\ \E j \in 1..3 : j \notin ToolsWithEvent(row.uniform_ID)
                                  /\ row.cols[j] = NaN
             /\ row.sum = 1

(***************************************************************************)
(* Properties of the classifier                                            *)
(***************************************************************************)
Classifiers == {"annotate_dse_class", "annotate_dse"}

ClsRan(f) == cls_out[f].status = "ok"

\* C5 as the claim states it, on one rMATS row (FDR and IncLevelDifference in
\* thousandths)
C5_Expected(r) ==
    IF r.FDR # <<>> /\ r.IncLevelDifference # <<>> /\ r.FDR[1] <= 10
          /\ r.IncLevelDifference[1] >= 50
    THEN "up-regulate"
    ELSE IF r.FDR # <<>> /\ r.IncLevelDifference # <<>> /\ r.FDR[1] <= 10
               /\ r.IncLevelDifference[1] <= 0 - 50
         THEN "down-regulate"
         ELSE "non-DSE"

\* C5: for rMATS, both classifiers return every input row, up-regulate exactly
\* when FDR <= 0.01 and IncLevelDifference >= 0.05, down-regulate exactly when
\* FDR <= 0.01 and IncLevelDifference <= -0.05, and non-DSE otherwise, a row
\* whose FDR or IncLevelDifference is not numeric included.
C5_rMATS_Thresholds ==
    cls_in.software = "rMATS" =>
        \A f \in Classifiers : cls_out[f] # NotRun =>
            /\ ClsRan(f)
            /\ Len(cls_out[f].table) = Len(cls_in.df)
            /\ \A i \in 1..Len(cls_in.df) :
                  /\ cls_out[f].table[i].src = i
                  /\ cls_out[f].table[i].class = C5_Expected(cls_in.df[i])

C5_Witness ==
    /\ cls_in.software = "rMATS"
    /\ \A f \in Classifiers : ClsRan(f)
    /\ Len(cls_in.df) = 2
    /\ cls_in.df[1].FDR = <<10>> /\ cls_in.df[1].IncLevelDifference = <<50>>
    /\ cls_in.df[2].FDR = <<>> /\ cls_in.df[2].IncLevelDifference = <<0 - 50>>
    /\ \A f \in Classifiers :
          /\ cls_out[f].table[1].class = "up-regulate"
          /\ cls_out[f].table[2].class = "non-DSE"

\* The role-selected input rows of a uniform_ID that have all their statistics
ClsSelected(u) ==
    {j \in 1..Len(cls_in.df) :
        /\ cls_in.df[j].uniform_ID = u
        /\ ~AnyNaN(cls_in.df[j].prob) /\ ~AnyNaN(cls_in.df[j].dpsi)
        /\ MajiqRole(cls_in.event_type, cls_in.df[j], cls_in.df[j].strand)}

\* C6: for MAJIQ, both classifiers return up-regulate only when a role-selected
\* row of the event has probability_changing > 0.95 and median_dpsi > 0, and
\* down-regulate only when one has probability_changing > 0.95 and
\* median_dpsi < 0; a deciding row with median_dpsi exactly 0 gives non-DSE.
C6_MAJIQ_Rule ==
    cls_in.software = "MAJIQ" =>
        \A f \in Classifiers : ClsRan(f) =>
            \A k \in 1..Len(cls_out[f].table) :
                LET row == cls_out[f].table[k]
                    hit(sign) ==
                        \E j \in ClsSelected(row.uniform_ID) :
                            /\ \E c \in 1..Len(cls_in.df[j].prob) :
                                  cls_in.df[j].prob[c][1] > 950
                            /\ cls_in.df[j].dpsi[1][1] * sign > 0
                IN /\ row.class = "up-regulate" => hit(1)
                   /\ row.class = "down-regulate" => hit(0 - 1)

\* C7: every row either classifier returns has class up-regulate,
\* down-regulate or non-DSE, never a missing class.
C7_ClassNeverNull ==
    \A f \in Classifiers : ClsRan(f) =>
        \A k \in 1..Len(cls_out[f].table) :
            cls_out[f].table[k].class \in {"up-regulate", "down-regulate", "non-DSE"}

\* C8: either classifier returns exactly one row for each distinct uniform_ID
\* of its input, and never both an up-regulate and a down-regulate row for one
\* uniform_ID.
C8_OneRowPerEvent ==
    \A f \in Classifiers : ClsRan(f) =>
        \A u \in {cls_in.df[i].uniform_ID : i \in 1..Len(cls_in.df)} \ {NaN} :
            LET rows == {k \in 1..Len(cls_out[f].table) :
                            cls_out[f].table[k].uniform_ID = u}
            IN /\ Cardinality(rows) = 1
               /\ ~ /\ \E k \in rows : cls_out[f].table[k].class = "up-regulate"
                    /\ \E k \in rows : cls_out[f].table[k].class = "down-regulate"

\* C28: annotate_dse_class and annotate_dse assign the same class to every
\* uniform_ID that both of them return, MAJIQ tables with several rows per
\* event, several probability columns and a median_dpsi of exactly 0 included.
C28_ClassifiersAgree ==
    (ClsRan("annotate_dse_class") /\ ClsRan("annotate_dse")) =>
        \A k \in 1..Len(cls_out["annotate_dse_class"].table) :
            \A l \in 1..Len(cls_out["annotate_dse"].table) :
                LET a == cls_out["annotate_dse_class"].table[k]
                    b == cls_out["annotate_dse"].table[l]
                IN (a.uniform_ID = b.uniform_ID) => (a.class = b.class)

\* The pairings the registry has a parser for
SupportedConfiguration(software, event_type) ==
    \/ software \in {"SUPPA2", "MAJIQ"}
          /\ event_type \in {"SE", "A3SS", "A5SS", "AF", "AL", "RI", "MX"}
    \/ software \in {"rMATS", "PSI-Sigma"}
          /\ event_type \in {"SE", "A3SS", "A5SS", "RI", "MX"}

\* C17: for an unknown tool, and for a known tool with an event type it does
\* not support, neither classifier returns a table: the call raises.
C17_UnsupportedRaises ==
    ~SupportedConfiguration(cls_in.software, cls_in.event_type) =>
        \A f \in Classifiers : cls_out[f].status # "ok"

\* C24: on a table holding only uniform_ID and class, each classifier of each
\* of the four tools returns the table unchanged or raises the error of the
\* missing column; it never returns a table with another class.
C24_OwnOutputNoOp ==
    (cls_in.columns = OwnColumns
       /\ cls_in.software \in {"rMATS", "SUPPA2", "PSI-Sigma", "MAJIQ"}) =>
        \A f \in Classifiers :
            \/ cls_out[f] = NotRun
            \/ cls_out[f] = Ok(cls_in.df)
            \/ cls_out[f].status = "KeyError"

(***************************************************************************)
(* Properties of the ASE extractor                                         *)
(***************************************************************************)
\* The value of a decimal text in thousandths
Thousandths(s) == DecimalNum(s) * (1000 \div DecimalDen(s))

RECURSIVE SumThousandths(_)
SumThousandths(texts) ==
    IF Len(texts) = 0 THEN 0
    ELSE Thousandths(texts[1]) + SumThousandths(Drop(texts, 1))

\* The exact mean of the numeric entries of a replicate list lies in [lo, hi]
\* (in thousandths)
ExactMeanInRange(x, sep, lo, hi) ==
    /\ x # NA
    /\ LET kept == SelectSeq(Split(x, sep), LAMBDA i : LowerStr(i) # TXT_na)
       IN /\ Len(kept) > 0
          /\ lo * Len(kept) <= SumThousandths(kept)
          /\ SumThousandths(kept) <= hi * Len(kept)

C9_TestInRange(r) ==
    IF psivec.software = "rMATS" THEN ExactMeanInRange(r.IncLevel1, ",", 50, 950)
    ELSE ExactMeanInRange(r.T_Values, "|", 5000, 95000)

C9_ControlInRange(r) ==
    IF psivec.software = "rMATS" THEN ExactMeanInRange(r.IncLevel2, ",", 50, 950)
    ELSE ExactMeanInRange(r.N_Values, "|", 5000, 95000)

\* C9: for the tools that give replicate lists (rMATS, PSI-Sigma), an event is
\* in the test (control) set exactly when the mean of the numeric entries of
\* its test (control) list, NA entries dropped, lies in [0.05, 0.95]
\* ([5, 95] for PSI-Sigma), both ends included.
C9_ASE_ClosedInterval ==
    (ase_ids.status = "ok" /\ psivec.software \in {"rMATS", "PSI-Sigma"}) =>
        \A i \in 1..Len(psivec.df) :
            LET u == psivec.df[i].uniform_ID
                rows == {j \in 1..Len(psivec.df) : psivec.df[j].uniform_ID = u}
            IN u # NaN =>
                  /\ u \in ase_ids.test <=>
                        \E j \in rows : C9_TestInRange(psivec.df[j])
                  /\ u \in ase_ids.control <=>
                        \E j \in rows : C9_ControlInRange(psivec.df[j])

(***************************************************************************)
(* Properties of the MAJIQ canonicalizers                                  *)
(***************************************************************************)
HasRow(group, col, value) == \E i \in 1..Len(group) : group[i][col] = value

\* A role row the parser needs is absent from the group
MissingRoleRow(parser, group) ==
    CASE parser = "parse_MAJIQ_SE" ->
            ~HasRow(group, "junction_name", <<"C1_C2">>)
               \/ ~HasRow(group, "junction_name", <<"C1_A">>)
      [] parser \in {"parse_MAJIQ_A3SS_A5SS", "parse_MAJIQ_AF_AL"} ->
            ~HasRow(group, "junction_name", <<"Proximal">>)
               \/ ~HasRow(group, "junction_name", <<"Distal">>)
      [] parser = "parse_MAJIQ_RI" ->
            ~HasRow(group, "junction_name", <<"C1_C2_intron">>)
               /\ ~HasRow(group, "junction_name", <<"C2_C1_intron">>)
      [] parser = "parse_MAJIQ_MX" ->
            ~HasRow(group, "junction_name", <<"C1_A1">>)
               \/ ~HasRow(group, "junction_name", <<"C2_A2">>)

\* C29: for SUPPA2, ase_extract returns the same (test set, control set) pair
\* whatever order the set of column-name prefixes iterates in: the pair a run
\* returns is the pair every order of the two sample groups gives, never the
\* two sets swapped.
C29_OrderIndependent ==
    (psivec.software = "SUPPA2" /\ ase_ids # AseNotRun) =>
        \A sample_groups \in {<<"A", "B">>, <<"B", "A">>} :
            ase_ids = ase_extract_suppa2(psivec.df, psivec.event_type, sample_groups)

\* C10: in every MAJIQ canonicalizer, a group that lacks a required role row
\* does not make the call raise, and once processed it is in the table with
\* all its rows and a missing uniform_ID.
C10_MissingRoleRow ==
    \A k \in 1..Len(majiq_in.groups) :
        MissingRoleRow(majiq_in.parser, majiq_in.groups[k]) =>
            /\ ~(/\ majiq_loop.status \in {"UnboundLocalError", "TypeError"}
                 /\ majiq_loop.pos + 1 = k)
            /\ k <= Len(majiq_loop.records) =>
                  /\ majiq_loop.records[k].rows = majiq_in.groups[k]
                  /\ majiq_loop.records[k].uniform_ID = NA

\* A junction_coord cell of the group is not a pair of integers
NonIntegerCoordinate(group) ==
    \E i \in 1..Len(group) : ~TwoInts(group[i].junction_coord)

\* C11: a record whose coordinate field is not an integer gets a missing
\* uniform_ID (the text is never put into an identifier) and the call does
\* not raise; here for the MAJIQ canonicalizers called as the registry calls
\* them, on groups that have all their role rows and one junction_coord that
\* does not parse.
C11_NonIntegerCoordinate ==
    \A k \in 1..Len(majiq_in.groups) :
        (/\ majiq_in.parser = MajiqParserOf(majiq_in.event_type)
         /\ NonIntegerCoordinate(majiq_in.groups[k])
         /\ ~MissingRoleRow(majiq_in.parser, majiq_in.groups[k])) =>
            /\ ~(/\ majiq_loop.status \in {"UnboundLocalError", "TypeError"}
                 /\ majiq_loop.pos + 1 = k)
            /\ k <= Len(majiq_loop.records) =>
                  majiq_loop.records[k].uniform_ID = NA

\* C27: the uniform_ID attached to an event_id group is missing or is the
\* identifier computed from the rows of that group; it is never the one left
\* over from a group processed before.
C27_NoStaleIdentifier ==
    \A k \in 1..Len(majiq_loop.records) :
        LET out == MajiqBody(majiq_in.parser, majiq_in.event_type, majiq_in.groups[k])
        IN \/ majiq_loop.records[k].uniform_ID = NA
           \/ (out.kind = "id" /\ majiq_loop.records[k].uniform_ID = out.id)

(***************************************************************************)
(* Properties of the integration run                                       *)
(***************************************************************************)
\* The name matches none of the known tools
UnknownTool(name) ==
    \A key \in {TXT_suppa2, TXT_majiq, TXT_rmats, TXT_psisigma} :
        ~Contains(LowerStr(name), key)

UnknownRequested ==
    {i \in 1..Len(load_in.software_list) : UnknownTool(load_in.software_list[i])}

\* C14: when a requested tool name matches no known tool, no output file is
\* written, the run does not complete, and the error it ends with names the
\* offending tool.
C14_UnknownToolFatal ==
    UnknownRequested # {} =>
        /\ load_st.written = 0
        /\ load_st.status # "done"
        /\ load_st.status # "running" =>
              \E i \in UnknownRequested :
                  load_st.message.name = load_in.software_list[i]

\* C15: when every requested tool is known, the run never ends with an error:
\* unsupported event types and event types without a file are skipped, also
\* when that leaves a tool with nothing to load.
C15_SkipsAndCompletes ==
    UnknownRequested = {} => load_st.status \in {"running", "done"}

(***************************************************************************)
(* Properties of the benchmarking run                                      *)
(***************************************************************************)
\* C16: a missing input file fails its own (tool, event type) unit only: once
\* unify_results has ended, every unit whose input file exists was processed.
C16_MissingFileConfined ==
    unify_st.status # "running" =>
        \A k \in 1..Len(Units(unify_in.software_list, unify_in.event_list)) :
            LET unit == Units(unify_in.software_list, unify_in.event_list)[k]
            IN load_file(unify_in.present, unit.ev, unit.sw) = "ok" =>
                   \E j \in 1..Len(unify_st.processed) : unify_st.processed[j] = unit

(***************************************************************************)
(* Properties of the novelty filter                                        *)
(***************************************************************************)
NovelRan == novel_out.status # "unset"

ExistingNovelFiles ==
    {f \in {novel_in.splice_file, novel_in.junction_file} : f.exists}

\* The structural key of the row is the key of a row of the novel-event data
NovelMatch(row) ==
    CASE novel_in.software = TXT_rMATS ->
            LET key == SeqToSet(event_key_columns(novel_in.event))
            IN /\ key # {}
               /\ \E f \in ExistingNovelFiles :
                     /\ key \subseteq f.cols
                     /\ \E j \in 1..Len(f.rows) :
                           \A c \in key : f.rows[j][c].text = row.cells[c].text
      [] novel_in.software = TXT_MAJIQ ->
            \E i \in 1..Len(novel_in.df) :
                novel_in.df[i].event_id = row.event_id /\ novel_in.df[i].denovo
      [] novel_in.software = TXT_PSISigma -> row.type = "novel"
      [] OTHER -> FALSE

\* The values of a table as text
TableText(table) ==
    IF novel_in.software = TXT_rMATS
    THEN [i \in 1..Len(table) |->
            [ID |-> table[i].ID,
             cells |-> [c \in DOMAIN table[i].cells |-> table[i].cells[c].text]]]
    ELSE table

\* C18: the filter returns exactly the input rows whose structural key matches
\* no row of the tool's novel-event data, each once, in order and with its
\* values unchanged.
C18_ExactlyNonNovel ==
    NovelRan =>
        /\ novel_out.status = "ok"
        /\ TableText(novel_out.table)
              = TableText(SelectSeq(novel_in.df, LAMBDA row : ~NovelMatch(row)))

\* C19: for rMATS with neither novel-event file, the filter returns its input
\* table unchanged and does not raise.
C19_NoFilesNoOp ==
    (NovelRan /\ novel_in.software = TXT_rMATS /\ ExistingNovelFiles = {}) =>
        novel_out = Ok(novel_in.df)

\* C19 witness: a non-empty rMATS SE table filtered without any novel file
C19_Witness ==
    /\ NovelRan
    /\ novel_in.software = TXT_rMATS
    /\ novel_in.event = "SE"
    /\ ExistingNovelFiles = {}
    /\ Len(novel_in.df) = MaxNovelRows
    /\ novel_out.table = novel_in.df

\* C20: the rMATS filter removes no row unless every structural key column is
\* in both the table and the novel-event data.
C20_NoPartialKey ==
    (NovelRan /\ novel_in.software = TXT_rMATS
       /\ ~(SeqToSet(event_key_columns(novel_in.event))
               \subseteq UNION {f.cols : f \in ExistingNovelFiles})) =>
        /\ novel_out.status = "ok"
        /\ Len(novel_out.table) = Len(novel_in.df)

\* C23: the join and every integration output write happen only after the
\* classification tables of all requested tools are loaded; every written file
\* has one column per requested tool.
C23_FanInBarrier ==
    /\ pc = "load" => (df_combined = <<>> /\ DOMAIN files = {})
    /\ pc # "load" => Len(dfs) = Len(software_list)
    /\ \A f \in DOMAIN files :
          /\ Len(dfs) = Len(software_list)
          /\ \A i \in 1..Len(files[f]) : Len(files[f][i].cols) = Len(software_list)

\* C23 witness: a finished run of three tools whose outputs have rows
C23_Witness ==
    /\ pc = "done"
    /\ Len(software_list) = 3
    /\ Cardinality(DOMAIN files) = 3
    /\ \A f \in DOMAIN files : Len(files[f]) >= 2

(***************************************************************************)
(* Properties of the files written by the benchmarking run                 *)
(***************************************************************************)
UnifyWritten == unify_st.written

\* C21: every per-tool file written by unify_results through save_dataframe
\* has exactly the columns uniform_ID and class.
C21_SavedColumns ==
    \A i \in 1..Len(UnifyWritten) : UnifyWritten[i].columns = {"uniform_ID", "class"}

PathNames == LoadNames \cup {TXT_SUPPA2, TXT_PSISigma, TXT_rMATS \o <<".","S","E">>}

PathSamples == {TXT_s1, TXT_s1 \o <<".","S","E">>, TXT_rMATS}

PathUnits == PathNames \X PathSamples \X {"SE", "A3SS", "A5SS", "MX", "RI", "AF", "AL"}

UnifyCalls == unify_st.calls

\* The position of a call in the calls of one iteration, 0 when it is not made
CallIndex(names, name) ==
    IF \E i \in 1..Len(names) : names[i] = name
    THEN CHOOSE i \in 1..Len(names) : names[i] = name
    ELSE 0

\* C30: the exclusion_novel pass runs before the inclusion_novel pass; the
\* novelty filter is called only in the first pass and save_dataframe only in
\* the second, before annotate_dse_class; every saved per-tool file holds the
\* unfiltered canonicalized table, without a class column.
C30_PassOrder ==
    /\ \A i, j \in 1..Len(UnifyCalls) :
          (i < j /\ UnifyCalls[i].unit.file_type = "inclusion_novel")
              => UnifyCalls[j].unit.file_type = "inclusion_novel"
    /\ \A i \in 1..Len(UnifyCalls) :
          LET c == UnifyCalls[i]
          IN /\ CallIndex(c.names, "filter_novel_events") > 0
                    => c.unit.file_type = "exclusion_novel"
             /\ CallIndex(c.names, "save_dataframe") > 0
                    => /\ c.unit.file_type = "inclusion_novel"
                       /\ CallIndex(c.names, "save_dataframe")
                              < CallIndex(c.names, "annotate_dse_class")
    /\ Len(UnifyWritten)
          = Cardinality({i \in 1..Len(UnifyCalls) :
                            CallIndex(UnifyCalls[i].names, "save_dataframe") > 0})
    /\ \A i \in 1..Len(UnifyWritten) :
          LET w == UnifyWritten[i]
          IN /\ w.rows = RunRows(w.software, w.event_type, unify_in.novel)
             /\ w.columns = RawColumns(w.software) \cup {"uniform_ID"}

\* C30 witness: a finished run with a novel event, whose first pass removed it
\* from an rMATS table and whose second pass saved the table with it
C30_Witness ==
    /\ unify_st.status = "done" /\ unify_in.novel = {1}
    /\ \E i \in 1..Len(unify_st.written) :
          /\ unify_st.written[i].software = TXT_rMATS
          /\ Len(unify_st.written[i].rows) = 2
          /\ Len(filter_novel_events([columns |-> {}, rows |-> unify_st.written[i].rows],
                                     TXT_rMATS, "SE", unify_in.novel).rows) = 1
    /\ \E i \in 1..Len(unify_st.calls) :
          /\ unify_st.calls[i].unit.sw = TXT_rMATS
          /\ CallIndex(unify_st.calls[i].names, "filter_novel_events") > 0

(***************************************************************************)
(* Properties of the PSI-Sigma canonicalizer                               *)
(***************************************************************************)
\* The raw field with only a trailing ordinal suffix (a dot and digits) removed
StripOrdinalSuffix(raw) ==
    LET parts == Split(raw, DOT)
    IN IF Len(parts) >= 2 /\ IsDigitStr(parts[Len(parts)])
       THEN SubSeq(raw, 1, Len(raw) - Len(parts[Len(parts)]) - 1)
       ELSE raw

\* C25: the key of the transcript join is the raw Reference Transcript with
\* only a trailing ordinal suffix removed.
C25_TranscriptKey ==
    psisigma_out.status = "ok" =>
        \A i \in 1..Len(psisigma_out.table) :
            psisigma_out.table[i].transcript_id
                = StripOrdinalSuffix(psisigma_in.df[psisigma_out.table[i].src])

\* C26: every Event Region yields at most one uniform_ID, that of one exon
\* pairing, however many candidate target exons the region has.
C26_OnePairingPerRegion ==
    psisigma_out.status = "ok" =>
        \A r \in 1..Len(MXRegions) :
            Cardinality({psisigma_out.table[i].uniform_ID :
                            i \in {j \in 1..Len(psisigma_out.table) :
                                      psisigma_out.table[j].region = MXRegions[r]}}) <= 1

(***************************************************************************)
(* Specifications                                                          *)
(***************************************************************************)
Int_Idle ==
    /\ software_list = Unset /\ dfs = Unset /\ dse_df = Unset /\ df_combined = Unset
    /\ n = Unset /\ files = Unset /\ pc = Unset

Cls_Idle == cls_in = Unset /\ cls_out = Unset

Ase_Idle == psivec = Unset /\ ase_ids = Unset

Maj_Idle == majiq_in = Unset /\ majiq_loop = Unset

Ld_Idle == load_in = Unset /\ load_st = Unset

Uni_Idle == unify_in = Unset /\ unify_st = Unset

Nov_Idle == novel_in = Unset /\ novel_out = Unset

Ps_Idle == psisigma_in = Unset /\ psisigma_out = Unset

Run_Idle == Ld_Idle /\ Uni_Idle /\ Nov_Idle /\ Ps_Idle

InitSE == SE_Init /\ Int_Idle /\ Cls_Idle /\ Ase_Idle /\ Maj_Idle /\ Run_Idle

NextSE ==
    \/ Run_parse_rMATS_SE /\ UNCHANGED <<intVars, clsVars, aseVars, majVars, ldVars, uniVars, novVars, psVars>>
    \/ Run_parse_MAJIQ_SE /\ UNCHANGED <<intVars, clsVars, aseVars, majVars, ldVars, uniVars, novVars, psVars>>
    \/ Run_parse_psisigma_SE /\ UNCHANGED <<intVars, clsVars, aseVars, majVars, ldVars, uniVars, novVars, psVars>>

SpecSE == InitSE /\ [][NextSE]_vars

InitInt == Int_Init /\ SE_Idle /\ Cls_Idle /\ Ase_Idle /\ Maj_Idle /\ Run_Idle

NextInt ==
    \/ LoadSoftware /\ UNCHANGED <<seVars, clsVars, aseVars, majVars, ldVars, uniVars, novVars, psVars>>
    \/ MergeAll /\ UNCHANGED <<seVars, clsVars, aseVars, majVars, ldVars, uniVars, novVars, psVars>>
    \/ WriteThreshold /\ UNCHANGED <<seVars, clsVars, aseVars, majVars, ldVars, uniVars, novVars, psVars>>

SpecInt == InitInt /\ [][NextInt]_vars

InitCls == Cls_Init /\ SE_Idle /\ Int_Idle /\ Ase_Idle /\ Maj_Idle /\ Run_Idle

NextCls ==
    \/ Run_annotate_dse_class /\ UNCHANGED <<seVars, intVars, aseVars, majVars, ldVars, uniVars, novVars, psVars>>
    \/ Run_annotate_dse /\ UNCHANGED <<seVars, intVars, aseVars, majVars, ldVars, uniVars, novVars, psVars>>

SpecCls == InitCls /\ [][NextCls]_vars

InitClsCfg ==
    Cls_Init_AnyConfiguration /\ SE_Idle /\ Int_Idle /\ Ase_Idle /\ Maj_Idle /\ Run_Idle

SpecClsCfg == InitClsCfg /\ [][NextCls]_vars

InitClsOwn ==
    Cls_Init_OwnOutput /\ SE_Idle /\ Int_Idle /\ Ase_Idle /\ Maj_Idle /\ Run_Idle

SpecClsOwn == InitClsOwn /\ [][NextCls]_vars

InitAse == Ase_Init /\ SE_Idle /\ Int_Idle /\ Cls_Idle /\ Maj_Idle /\ Run_Idle

NextAse ==
    \/ Run_ase_extract /\ UNCHANGED <<seVars, intVars, clsVars, majVars, ldVars, uniVars, novVars, psVars>>
    \/ Run_ase_extract_suppa2 /\ UNCHANGED <<seVars, intVars, clsVars, majVars, ldVars, uniVars, novVars, psVars>>

SpecAse == InitAse /\ [][NextAse]_vars

InitMajiq == Maj_Init /\ SE_Idle /\ Int_Idle /\ Cls_Idle /\ Ase_Idle /\ Run_Idle

NextMajiq ==
    \/ parse_MAJIQ_iteration /\ UNCHANGED <<seVars, intVars, clsVars, aseVars, ldVars, uniVars, novVars, psVars>>
    \/ parse_MAJIQ_return /\ UNCHANGED <<seVars, intVars, clsVars, aseVars, ldVars, uniVars, novVars, psVars>>

SpecMajiq == InitMajiq /\ [][NextMajiq]_vars

InitLoad ==
    /\ Ld_Init /\ SE_Idle /\ Int_Idle /\ Cls_Idle /\ Ase_Idle /\ Maj_Idle
    /\ Uni_Idle /\ Nov_Idle /\ Ps_Idle

NextLoad ==
    \/ Call_load_files /\ UNCHANGED <<seVars, intVars, clsVars, aseVars, majVars, uniVars, novVars, psVars>>
    \/ Write_output /\ UNCHANGED <<seVars, intVars, clsVars, aseVars, majVars, uniVars, novVars, psVars>>

SpecLoad == InitLoad /\ [][NextLoad]_vars

InitUnify ==
    /\ Uni_Init /\ SE_Idle /\ Int_Idle /\ Cls_Idle /\ Ase_Idle /\ Maj_Idle
    /\ Ld_Idle /\ Nov_Idle /\ Ps_Idle

NextUnify ==
    \/ Process_unit /\ UNCHANGED <<seVars, intVars, clsVars, aseVars, majVars, ldVars, novVars, psVars>>
    \/ Finish_unify /\ UNCHANGED <<seVars, intVars, clsVars, aseVars, majVars, ldVars, novVars, psVars>>

SpecUnify == InitUnify /\ [][NextUnify]_vars

InitNovel ==
    /\ Nov_Init /\ SE_Idle /\ Int_Idle /\ Cls_Idle /\ Ase_Idle /\ Maj_Idle
    /\ Ld_Idle /\ Uni_Idle /\ Ps_Idle

NextNovel ==
    Run_filter_novel_events /\ UNCHANGED <<seVars, intVars, clsVars, aseVars, majVars, ldVars, uniVars, psVars>>

SpecNovel == InitNovel /\ [][NextNovel]_vars

InitPsiJoin ==
    /\ Ps_Init_Join /\ SE_Idle /\ Int_Idle /\ Cls_Idle /\ Ase_Idle /\ Maj_Idle
    /\ Ld_Idle /\ Uni_Idle /\ Nov_Idle

NextPsiJoin ==
    Run_parse_psi_sigma /\ UNCHANGED <<seVars, intVars, clsVars, aseVars, majVars, ldVars, uniVars, novVars>>

SpecPsiJoin == InitPsiJoin /\ [][NextPsiJoin]_vars

InitPsiMX ==
    /\ Ps_Init_MX /\ SE_Idle /\ Int_Idle /\ Cls_Idle /\ Ase_Idle /\ Maj_Idle
    /\ Ld_Idle /\ Uni_Idle /\ Nov_Idle

NextPsiMX ==
    Run_parse_psisigma_MX /\ UNCHANGED <<seVars, intVars, clsVars, aseVars, majVars, ldVars, uniVars, novVars>>

SpecPsiMX == InitPsiMX /\ [][NextPsiMX]_vars

====
